---- MODULE Spec2Model ----
(***************************************************************************)
(* Leasing agent: the tour-booking transactions of DomainTools /           *)
(* LeasingTools over the PostgreSQL tables tour_slots and bookings, the    *)
(* conversation orchestrators LLMAgent / LangChainAgent with the Logger,   *)
(* and the action classifier.                                              *)
(*                                                                         *)
(* The database is modelled as PostgreSQL under READ COMMITTED: the        *)
(* committed tables are what every other transaction sees; a transaction   *)
(* keeps its own writes in tx[p] until COMMIT applies them at once or      *)
(* ROLLBACK drops them; SELECT ... FOR UPDATE and UPDATE take a row lock,  *)
(* wait while another transaction holds it, and evaluate their WHERE       *)
(* clause on the row version that is committed when the lock is granted.   *)
(***************************************************************************)
EXTENDS Integers, Sequences, FiniteSets, TLC

\* ------------------------------------------------------------ bounds ----
NumCalls == 2
MaxCapacity == 2
MaxTextLen == 2

\* ----------------------------------------------------- program constants --
\* AgentExecutor maxIterations: at most this many tool invocations are
\* captured for one request
MaxIterations == 3

Procs == 1..NumCalls

\* ------------------------------------------------------ reference data --
SlotIds == {1, 2}
Community == "sunset-ridge"
\* the (community_id, slot_time) keys a caller may ask for: the two seeded
\* slots, and a key that never matches a row (a community without slots)
RequestKeys ==
  { [community_id |-> "sunset-ridge", slot_time |-> 1],
    [community_id |-> "sunset-ridge", slot_time |-> 2],
    [community_id |-> "oak-hill", slot_time |-> 1] }
\* booking ids: 0 is the booking that may exist before the calls start,
\* bookTourSlot of call p generates the id p; the ids of calls that did not
\* book are ids no row has
BookingIds == {0} \cup Procs

VARIABLES
  tour_slots,   \* committed rows of tour_slots, by id
  bookings,     \* committed rows of bookings, by booking_id
  slotLock,     \* row lock on tour_slots[s]: holder, or 0
  bookingLock,  \* row lock on bookings[b]: holder, or 0
  pc,           \* position of call p in its method
  call,         \* the method and arguments of call p
  tx,           \* uncommitted writes and reads of the transaction of call p
  result,       \* what call p returned: "none" until it returns
  hist,         \* per call: facts recorded about what it did
  agent,        \* processMessage: its position and local variables
  logs,         \* rows of the logs table (Logger.logRequest's INSERT)
  winston,      \* entries Logger.logRequest handed to winston
  response,     \* what processMessage settled with
  cls,          \* the classifier's input and output
  now,          \* the database clock NOW(), in the unit of slot_time
  http,         \* the HTTP exchange at the router: request and response
  agentExecutor,\* the field LangChainAgent.agentExecutor of the one agent object
  msgs,         \* concurrent processMessage invocations: position and locals
  units,        \* rows of the units table, by row
  query         \* a read-only DomainTools call: arguments and returned value

dbVars == <<tour_slots, bookings, slotLock, bookingLock>>
bookVars == <<tour_slots, bookings, slotLock, bookingLock, pc, call, tx, result, hist>>
agentVars == <<agent, logs, winston, response>>
nonBookVars == <<agent, logs, winston, response, cls>>
sharedVars == <<agentExecutor, msgs, units, query>>
envVars == <<now, http, sharedVars>>
vars == <<bookVars, nonBookVars, envVars>>

\* no concurrent invocations
queryIdle == units = << >> /\ query = [pc |-> "off"]
sharedIdle == agentExecutor = [k |-> "null"] /\ msgs = << >> /\ queryIdle
\* the clock before the first seeded slot, no HTTP exchange
envIdle == now = 0 /\ http = [stage |-> "off"] /\ sharedIdle

NoCall == [name |-> "none"]
\* sel: the row id a SELECT returned; slot, cur: the tour_slots row written and
\* its new counter; ins: a bookings row inserted; cancel: the booking_id
\* whose status was set to cancelled (0 / -1: none)
NoTx == [sel |-> 0, slot |-> 0, cur |-> 0, ins |-> FALSE, cancel |-> -1]
NoHist == [onCancelled |-> FALSE, decremented |-> FALSE, overlapped |-> FALSE, faultAt |-> "none"]

\* The tables before the calls start.  database seedData inserts slots with
\* distinct times, current_bookings = 0 and no booking row; a database that
\* has been in use also holds bookings made earlier.  The first slot's
\* capacity and availability flag are drawn from small sets, and it either is
\* empty or carries one confirmed booking (id 0) made by an earlier
\* bookTourSlot; the second slot is an empty available slot of capacity 1
\* (the schema's defaults).
SeedSlots ==
  { f \in [SlotIds -> [community_id : {Community}, slot_time : SlotIds,
                       available : BOOLEAN, max_capacity : 1..MaxCapacity,
                       current_bookings : {0, 1}]] :
      /\ \A s \in SlotIds : f[s].slot_time = s
      /\ f[2].available /\ f[2].max_capacity = 1 /\ f[2].current_bookings = 0 }

SeedBookings(slots) ==
  IF slots[1].current_bookings = 1
  THEN (0 :> [tour_slot_id |-> 1, status |-> "confirmed"])
  ELSE << >>

Init ==
  /\ tour_slots \in SeedSlots
  /\ bookings = SeedBookings(tour_slots)
  /\ slotLock = [s \in SlotIds |-> 0]
  /\ bookingLock = [b \in BookingIds |-> 0]
  /\ pc = [p \in Procs |-> "idle"]
  /\ call = [p \in Procs |-> NoCall]
  /\ tx = [p \in Procs |-> NoTx]
  /\ result = [p \in Procs |-> "none"]
  /\ hist = [p \in Procs |-> NoHist]
  /\ agent = [pc |-> "off"]
  /\ logs = << >>
  /\ winston = << >>
  /\ response = [kind |-> "none"]
  /\ cls = [pc |-> "off"]
  /\ envIdle

\* ------------------------------------------------- database primitives --
\* (mutation of MatchingSlots: the capacity test is dropped from the WHERE)
MatchingSlots_NoCapacity(key) ==
  { s \in SlotIds :
      /\ tour_slots[s].community_id = key.community_id
      /\ tour_slots[s].slot_time = key.slot_time
      /\ tour_slots[s].available = TRUE }

\* the rows the WHERE clause of bookTourSlot's SELECT matches, evaluated on
\* committed rows (domain-tools.ts 131-139): key, available flag, capacity
MatchingSlots(key) ==
  { s \in SlotIds :
      /\ tour_slots[s].community_id = key.community_id
      /\ tour_slots[s].slot_time = key.slot_time
      /\ tour_slots[s].available = TRUE
      /\ tour_slots[s].current_bookings < tour_slots[s].max_capacity }

\* rows[0] of a result set
FirstRow(rows) == CHOOSE s \in rows : \A t \in rows : s <= t

\* row locks a transaction holds are dropped when it ends
ReleaseSlotLocks(p) == [s \in SlotIds |-> IF slotLock[s] = p THEN 0 ELSE slotLock[s]]
ReleaseBookingLocks(p) == [b \in BookingIds |-> IF bookingLock[b] = p THEN 0 ELSE bookingLock[b]]

\* COMMIT: the writes of tx[p] become visible together
CommittedSlots(p) ==
  IF tx[p].slot = 0 THEN tour_slots
  ELSE [tour_slots EXCEPT ![tx[p].slot].current_bookings = tx[p].cur]

\* (mutation of CommittedBookings: the INSERT sets the status completed instead
\* of leaving it to the column default)
CommittedBookings_WrongStatus(p) ==
  LET ins == IF tx[p].ins
             THEN bookings @@ (p :> [tour_slot_id |-> tx[p].sel, status |-> "completed"])
             ELSE bookings
  IN IF tx[p].cancel = -1 THEN ins
     ELSE [ins EXCEPT ![tx[p].cancel].status = "cancelled"]

CommittedBookings(p) ==
  LET ins == IF tx[p].ins
             THEN bookings @@ (p :> [tour_slot_id |-> tx[p].sel, status |-> "confirmed"])
             ELSE bookings
  IN IF tx[p].cancel = -1 THEN ins
     ELSE [ins EXCEPT ![tx[p].cancel].status = "cancelled"]

\* the end of a call: the finally block releases the client, the call returns
Finish(p, res) ==
  /\ pc' = [pc EXCEPT ![p] = "done"]
  /\ result' = [result EXCEPT ![p] = res]
  /\ tx' = [tx EXCEPT ![p] = NoTx]

\* ------------------------------------------------------- bookTourSlot ---
\* a caller invokes bookTourSlot(community_id, slot_time, ...):
\* pool.connect() and BEGIN succeed (neither reads nor writes a row)
BookCall(p, key) ==
  /\ pc[p] = "idle"
  /\ pc' = [pc EXCEPT ![p] = "b_select"]
  /\ call' = [call EXCEPT ![p] = [name |-> "bookTourSlot", key |-> key]]
  /\ hist' = [hist EXCEPT ![p].overlapped =
                 \E q \in Procs \ {p} : /\ pc[q] \notin {"idle", "done"}
                                         /\ call[q].name = "bookTourSlot"
                                         /\ call[q].key = key]
  /\ UNCHANGED <<dbVars, tx, result, nonBookVars, envVars>>

\* (mutation of BookSelect: a plain SELECT without FOR UPDATE, which neither
\* waits for nor takes the row lock)
BookSelect_NoLock(p) ==
  /\ pc[p] = "b_select"
  /\ LET rows == MatchingSlots(call[p].key) IN
       IF rows = {}
       THEN /\ pc' = [pc EXCEPT ![p] = "b_notfound"]
            /\ UNCHANGED tx
       ELSE /\ tx' = [tx EXCEPT ![p].sel = FirstRow(rows)]
            /\ pc' = [pc EXCEPT ![p] = "b_update"]
  /\ UNCHANGED <<tour_slots, bookings, slotLock, bookingLock, call, result, hist, nonBookVars, envVars>>

\* SELECT ... FOR UPDATE: no row -> the not-available branch; otherwise wait
\* for the row locks, take them and keep rows[0]
BookSelect(p) ==
  /\ pc[p] = "b_select"
  /\ LET rows == MatchingSlots(call[p].key) IN
       IF rows = {}
       THEN /\ pc' = [pc EXCEPT ![p] = "b_notfound"]
            /\ UNCHANGED <<slotLock, tx>>
       ELSE /\ \A s \in rows : slotLock[s] \in {0, p}
            /\ slotLock' = [s \in SlotIds |-> IF s \in rows THEN p ELSE slotLock[s]]
            /\ tx' = [tx EXCEPT ![p].sel = FirstRow(rows)]
            /\ pc' = [pc EXCEPT ![p] = "b_update"]
  /\ UNCHANGED <<tour_slots, bookings, bookingLock, call, result, hist, nonBookVars, envVars>>

\* (mutation of BookNotAvailable: the error tells a slot that exists from one
\* that does not)
BookNotAvailable_TellsWhy(p) ==
  /\ pc[p] = "b_notfound"
  /\ slotLock' = ReleaseSlotLocks(p)
  /\ bookingLock' = ReleaseBookingLocks(p)
  /\ Finish(p, IF \E s \in SlotIds : /\ tour_slots[s].community_id = call[p].key.community_id
                                      /\ tour_slots[s].slot_time = call[p].key.slot_time
                THEN "slot_full" ELSE "not_available")
  /\ UNCHANGED <<tour_slots, bookings, call, hist, nonBookVars, envVars>>

\* the slot is not available: ROLLBACK, return {success: false}
BookNotAvailable(p) ==
  /\ pc[p] = "b_notfound"
  /\ slotLock' = ReleaseSlotLocks(p)
  /\ bookingLock' = ReleaseBookingLocks(p)
  /\ Finish(p, "not_available")
  /\ UNCHANGED <<tour_slots, bookings, call, hist, nonBookVars, envVars>>

\* (mutation of BookUpdate: the UPDATE runs outside the transaction, its
\* write is visible at once)
BookUpdate_AutoCommit(p) ==
  /\ pc[p] = "b_update"
  /\ slotLock[tx[p].sel] \in {0, p}
  /\ tour_slots' = [tour_slots EXCEPT ![tx[p].sel].current_bookings = @ + 1]
  /\ pc' = [pc EXCEPT ![p] = "b_insert"]
  /\ UNCHANGED <<bookings, slotLock, bookingLock, tx, call, result, hist, nonBookVars, envVars>>

\* UPDATE tour_slots SET current_bookings = current_bookings + 1 WHERE id
BookUpdate(p) ==
  /\ pc[p] = "b_update"
  /\ slotLock[tx[p].sel] \in {0, p}
  /\ slotLock' = [slotLock EXCEPT ![tx[p].sel] = p]
  /\ tx' = [tx EXCEPT ![p].slot = tx[p].sel,
                      ![p].cur = tour_slots[tx[p].sel].current_bookings + 1]
  /\ pc' = [pc EXCEPT ![p] = "b_insert"]
  /\ UNCHANGED <<tour_slots, bookings, bookingLock, call, result, hist, nonBookVars, envVars>>

\* INSERT INTO bookings (status defaults to confirmed)
BookInsert(p) ==
  /\ pc[p] = "b_insert"
  /\ tx' = [tx EXCEPT ![p].ins = TRUE]
  /\ pc' = [pc EXCEPT ![p] = "b_commit"]
  /\ UNCHANGED <<dbVars, call, result, hist, nonBookVars, envVars>>

\* (mutation of BookCommit: the client goes back to the pool with the row
\* locks of its transaction still held)
BookCommit_KeepsLocks(p) ==
  /\ pc[p] = "b_commit"
  /\ tour_slots' = CommittedSlots(p)
  /\ bookings' = CommittedBookings(p)
  /\ Finish(p, "success")
  /\ UNCHANGED <<slotLock, bookingLock, call, hist, nonBookVars, envVars>>

\* COMMIT, return {success: true, booking_id}
BookCommit(p) ==
  /\ pc[p] = "b_commit"
  /\ tour_slots' = CommittedSlots(p)
  /\ bookings' = CommittedBookings(p)
  /\ slotLock' = ReleaseSlotLocks(p)
  /\ bookingLock' = ReleaseBookingLocks(p)
  /\ Finish(p, "success")
  /\ UNCHANGED <<call, hist, nonBookVars, envVars>>

\* ------------------------------------------------------ cancelBooking ---
\* a caller invokes cancelBooking(booking_id): pool.connect() and BEGIN
\* succeed
CancelCall(p, b) ==
  /\ pc[p] = "idle"
  /\ pc' = [pc EXCEPT ![p] = "c_select"]
  /\ call' = [call EXCEPT ![p] = [name |-> "cancelBooking", booking_id |-> b]]
  /\ hist' = [hist EXCEPT ![p].onCancelled =
                 (b \in DOMAIN bookings /\ bookings[b].status = "cancelled")]
  /\ UNCHANGED <<dbVars, tx, result, nonBookVars, envVars>>

\* (mutation of CancelSelect: the status === 'cancelled' early return is
\* missing)
CancelSelect_NoStatusCheck(p) ==
  /\ pc[p] = "c_select"
  /\ LET b == call[p].booking_id IN
       IF b \notin DOMAIN bookings
       THEN /\ pc' = [pc EXCEPT ![p] = "c_false"]
            /\ UNCHANGED <<bookingLock, tx>>
       ELSE /\ bookingLock[b] \in {0, p}
            /\ bookingLock' = [bookingLock EXCEPT ![b] = p]
            /\ tx' = [tx EXCEPT ![p].sel = bookings[b].tour_slot_id]
            /\ pc' = [pc EXCEPT ![p] = "c_updbooking"]
  /\ UNCHANGED <<tour_slots, bookings, slotLock, call, result, hist, nonBookVars, envVars>>

\* SELECT tour_slot_id, status FROM bookings WHERE booking_id FOR UPDATE,
\* then the two early returns: no row, or status already cancelled
CancelSelect(p) ==
  /\ pc[p] = "c_select"
  /\ LET b == call[p].booking_id IN
       IF b \notin DOMAIN bookings
       THEN /\ pc' = [pc EXCEPT ![p] = "c_false"]
            /\ UNCHANGED <<bookingLock, tx>>
       ELSE /\ bookingLock[b] \in {0, p}
            /\ bookingLock' = [bookingLock EXCEPT ![b] = p]
            /\ tx' = [tx EXCEPT ![p].sel = bookings[b].tour_slot_id]
            /\ pc' = [pc EXCEPT ![p] =
                        IF bookings[b].status = "cancelled" THEN "c_false" ELSE "c_updbooking"]
  /\ UNCHANGED <<tour_slots, bookings, slotLock, call, result, hist, nonBookVars, envVars>>

\* (mutation of CancelFalse: the early returns throw an error instead of
\* returning false)
CancelFalse_Throws(p) ==
  /\ pc[p] = "c_false"
  /\ slotLock' = ReleaseSlotLocks(p)
  /\ bookingLock' = ReleaseBookingLocks(p)
  /\ Finish(p, "thrown")
  /\ UNCHANGED <<tour_slots, bookings, call, hist, nonBookVars, envVars>>

\* ROLLBACK, return false
CancelFalse(p) ==
  /\ pc[p] = "c_false"
  /\ slotLock' = ReleaseSlotLocks(p)
  /\ bookingLock' = ReleaseBookingLocks(p)
  /\ Finish(p, "false")
  /\ UNCHANGED <<tour_slots, bookings, call, hist, nonBookVars, envVars>>

\* UPDATE bookings SET status = 'cancelled'
CancelUpdateBooking(p) ==
  /\ pc[p] = "c_updbooking"
  /\ tx' = [tx EXCEPT ![p].cancel = call[p].booking_id]
  /\ pc' = [pc EXCEPT ![p] = "c_updslot"]
  /\ UNCHANGED <<dbVars, call, result, hist, nonBookVars, envVars>>

\* (mutation of CancelUpdateSlot: the cancellation leaves the counter alone)
CancelUpdateSlot_NoDecrement(p) ==
  /\ pc[p] = "c_updslot"
  /\ pc' = [pc EXCEPT ![p] = "c_commit"]
  /\ UNCHANGED <<dbVars, tx, call, result, hist, nonBookVars, envVars>>

\* UPDATE tour_slots SET current_bookings = current_bookings - 1
\* WHERE id = $1 AND current_bookings > 0
CancelUpdateSlot(p) ==
  /\ pc[p] = "c_updslot"
  /\ LET s == tx[p].sel IN
       IF tour_slots[s].current_bookings > 0
       THEN /\ slotLock[s] \in {0, p}
            /\ slotLock' = [slotLock EXCEPT ![s] = p]
            /\ tx' = [tx EXCEPT ![p].slot = s,
                                ![p].cur = tour_slots[s].current_bookings - 1]
       ELSE UNCHANGED <<slotLock, tx>>
  /\ pc' = [pc EXCEPT ![p] = "c_commit"]
  /\ UNCHANGED <<tour_slots, bookings, bookingLock, call, result, hist, nonBookVars, envVars>>

\* (mutation of CancelCommit: the status change is committed without the
\* counter's decrement)
CancelCommit_LosesDecrement(p) ==
  /\ pc[p] = "c_commit"
  /\ bookings' = CommittedBookings(p)
  /\ slotLock' = ReleaseSlotLocks(p)
  /\ bookingLock' = ReleaseBookingLocks(p)
  /\ hist' = [hist EXCEPT ![p].decremented = (tx[p].slot # 0)]
  /\ Finish(p, "true")
  /\ UNCHANGED <<tour_slots, call, nonBookVars, envVars>>

\* COMMIT, return true
CancelCommit(p) ==
  /\ pc[p] = "c_commit"
  /\ tour_slots' = CommittedSlots(p)
  /\ bookings' = CommittedBookings(p)
  /\ slotLock' = ReleaseSlotLocks(p)
  /\ bookingLock' = ReleaseBookingLocks(p)
  /\ hist' = [hist EXCEPT ![p].decremented = (tx[p].slot # 0)]
  /\ Finish(p, "true")
  /\ UNCHANGED <<call, nonBookVars, envVars>>

\* ------------------------------------------------------ storage faults --
\* a call whose pool.connect() rejects (it throws before its try block) or
\* whose BEGIN rejects (catch: ROLLBACK of an empty transaction, rethrow)
BeginFault(p, c) ==
  /\ pc[p] = "idle"
  /\ call' = [call EXCEPT ![p] = c]
  /\ hist' = [hist EXCEPT ![p].faultAt = "begin"]
  /\ Finish(p, "thrown")
  /\ UNCHANGED <<dbVars, nonBookVars, envVars>>

InTry == {"b_select", "b_notfound", "b_update", "b_insert", "b_commit",
          "c_select", "c_false", "c_updbooking", "c_updslot", "c_commit"}

\* a client.query(...) inside the try block rejects: the statement has no
\* effect and control passes to the catch block
QueryFault(p) ==
  /\ pc[p] \in InTry
  /\ hist' = [hist EXCEPT ![p].faultAt = pc[p]]
  /\ pc' = [pc EXCEPT ![p] = "catch"]
  /\ UNCHANGED <<dbVars, call, tx, result, nonBookVars, envVars>>

\* (mutation of CatchRollback: the catch block rethrows without ROLLBACK and
\* the client is not released)
CatchRollback_NoRelease(p) ==
  /\ pc[p] = "catch"
  /\ Finish(p, "thrown")
  /\ UNCHANGED <<tour_slots, bookings, slotLock, bookingLock, call, hist, nonBookVars, envVars>>

\* catch: ROLLBACK, rethrow; finally: release.  The transaction ends without
\* effect whether the ROLLBACK statement itself succeeds or the connection
\* is gone (the server aborts the transaction of a lost session)
CatchRollback(p) ==
  /\ pc[p] = "catch"
  /\ slotLock' = ReleaseSlotLocks(p)
  /\ bookingLock' = ReleaseBookingLocks(p)
  /\ Finish(p, "thrown")
  /\ UNCHANGED <<tour_slots, bookings, call, hist, nonBookVars, envVars>>

BookCalls == { [name |-> "bookTourSlot", key |-> k] : k \in RequestKeys }
CancelCalls == { [name |-> "cancelBooking", booking_id |-> b] : b \in BookingIds }

Next ==
  \/ \E p \in Procs, key \in RequestKeys : BookCall(p, key)
  \/ \E p \in Procs : BookSelect(p)
  \/ \E p \in Procs : BookNotAvailable(p)
  \/ \E p \in Procs : BookUpdate(p)
  \/ \E p \in Procs : BookInsert(p)
  \/ \E p \in Procs : BookCommit(p)
  \/ \E p \in Procs, b \in BookingIds : CancelCall(p, b)
  \/ \E p \in Procs : CancelSelect(p)
  \/ \E p \in Procs : CancelFalse(p)
  \/ \E p \in Procs : CancelUpdateBooking(p)
  \/ \E p \in Procs : CancelUpdateSlot(p)
  \/ \E p \in Procs : CancelCommit(p)
  \/ \E p \in Procs, c \in BookCalls \cup CancelCalls : BeginFault(p, c)
  \/ \E p \in Procs : QueryFault(p)
  \/ \E p \in Procs : CatchRollback(p)

Spec == Init /\ [][Next]_vars

\* ------------------------------------------------------------- clock ----
\* the WHERE clause of getAvailableTourSlots: the slots offered to a lead
Offerable(s) ==
  /\ tour_slots[s].available = TRUE
  /\ tour_slots[s].current_bookings < tour_slots[s].max_capacity
  /\ tour_slots[s].slot_time > now

\* getAvailableTourSlots(community_id): the offered slot times, ORDER BY
\* slot_time (slot ids are in slot_time order)
GetAvailableTourSlots(community_id) ==
  { tour_slots[s].slot_time : s \in { t \in SlotIds :
       tour_slots[t].community_id = community_id /\ Offerable(t) } }

\* time passes: NOW() moves on, up to the time of the last slot
Tick ==
  /\ now < Cardinality(SlotIds)
  /\ now' = now + 1
  /\ UNCHANGED <<bookVars, nonBookVars, http, sharedVars>>

NextClock == Next \/ Tick

\* the booking transactions while the clock runs
SpecClock == Init /\ [][NextClock]_vars

\* ======================================================== classifier ====
\* JavaScript values a tool result or an observation can be.  A string is
\* modelled by what JSON.parse makes of it: the value it denotes, or
\* "invalid" for text that is not JSON, or "empty" for the empty string.
Arr(l) == [k |-> "arr", v |-> l]
Obj == [k |-> "obj"]
Null == [k |-> "null"]
Str(j) == [k |-> "str", j |-> j]
InvalidText == [k |-> "invalid"]
EmptyText == [k |-> "empty"]

\* JSON.stringify of an array, an object or null
JsonStringify(v) == Str(v)
\* JSON.parse(text) throws on the empty string and on text that is not JSON
JsonParseThrows(v) == v.k = "str" /\ v.j.k \in {"invalid", "empty"}
JsonParse(v) == v.j

\* JavaScript truthiness: null, undefined and "" are falsy; arrays (also
\* empty ones), objects and non-empty strings are truthy
Truthy(v) == v.k \in {"arr", "obj"} \/ (v.k = "str" /\ v.j.k # "empty")
IsArray(v) == v.k = "arr"

TourSlotsTool == "get_available_tour_slots"

\* reply texts: sequences of fragments; a fragment is one of the phrases the
\* classifier searches for, a capitalised variant, or filler
Fragments == {"could you", "can you tell me", "what", "which", "?", "more information",
              "contact", "office", "speak", "agent", "unable", "sorry", "can't",
              "hello", "Could you"}
\* String.prototype.toLowerCase, fragment by fragment
LowerFragment(f) == IF f = "Could you" THEN "could you" ELSE f
ToLowerCase(text) == [i \in DOMAIN text |-> LowerFragment(text[i])]
\* String.prototype.includes
Includes(text, phrase) == \E i \in DOMAIN text : text[i] = phrase

\* langchain-agent isAskingForClarification; the same disjunction is written
\* inline in LLMAgent.parseResponse (&& binds tighter than ||)
IsAskingForClarification(text) ==
  \/ Includes(text, "could you")
  \/ Includes(text, "can you tell me")
  \/ (Includes(text, "what") /\ Includes(text, "?"))
  \/ Includes(text, "more information")
  \/ (Includes(text, "which") /\ Includes(text, "?"))

\* langchain-agent shouldHandoffToHuman; inline in LLMAgent.parseResponse
ShouldHandoffToHuman(text) ==
  \/ (Includes(text, "contact") /\ Includes(text, "office"))
  \/ (Includes(text, "speak") /\ Includes(text, "agent"))
  \/ Includes(text, "unable")
  \/ (Includes(text, "sorry") /\ Includes(text, "can't"))

(* mutation of ProposeTour: proposed_time is taken from the end of the list *)
ProposeTour_LastSlot(content, slots) ==
  [reply |-> content, action |-> "propose_tour",
   proposed_time |-> slots[Len(slots)], available_times |-> slots]

ProposeTour(content, slots) ==
  [reply |-> content, action |-> "propose_tour",
   proposed_time |-> slots[1], available_times |-> slots]
AskClarification(content) == [reply |-> content, action |-> "ask_clarification"]
HandoffHuman(content) == [reply |-> content, action |-> "handoff_human"]

\* the text rules both classifiers end with: clarification, then handoff,
\* then the default
(* mutation of ClassifyText: the handoff patterns are tested first *)
ClassifyText_HandoffFirst(content) ==
  LET lower == ToLowerCase(content) IN
  IF ShouldHandoffToHuman(lower) THEN HandoffHuman(content)
  ELSE AskClarification(content)

ClassifyText(content) ==
  LET lower == ToLowerCase(content) IN
  IF IsAskingForClarification(lower) THEN AskClarification(content)
  ELSE IF ShouldHandoffToHuman(lower) THEN HandoffHuman(content)
  ELSE AskClarification(content)

\* toolResults.find(r => r.name === 'get_available_tour_slots')?.result:
\* the result of the FIRST tour-slot invocation, undefined when there is none
FirstTourSlotsResult(toolResults) ==
  LET idx == { i \in DOMAIN toolResults : toolResults[i].name = TourSlotsTool } IN
  IF idx = {} THEN Null
  ELSE toolResults[CHOOSE i \in idx : \A j \in idx : i <= j].result

\* typeof r === 'string' ? JSON.parse(r) : r, with [] when JSON.parse throws
TourSlotsOf(r) ==
  IF r.k = "str" THEN (IF JsonParseThrows(r) THEN Arr(<< >>) ELSE JsonParse(r)) ELSE r

(* mutation of ParseResponse: the tourSlots.length > 0 test is missing *)
ParseResponse_NoLengthCheck(content, toolResults) ==
  LET r == FirstTourSlotsResult(toolResults)
      tourSlots == IF Truthy(r) THEN TourSlotsOf(r) ELSE Arr(<< >>)
  IN IF Truthy(r) /\ Truthy(tourSlots) /\ IsArray(tourSlots)
     THEN [reply |-> content, action |-> "propose_tour",
           proposed_time |-> IF tourSlots.v = << >> THEN 0 ELSE tourSlots.v[1],
           available_times |-> tourSlots.v]
     ELSE ClassifyText(content)

\* LLMAgent.parseResponse
ParseResponse(content, toolResults) ==
  LET r == FirstTourSlotsResult(toolResults)
      tourSlots == IF Truthy(r) THEN TourSlotsOf(r) ELSE Arr(<< >>)
  IN IF Truthy(r) /\ Truthy(tourSlots) /\ IsArray(tourSlots) /\ Len(tourSlots.v) > 0
     THEN ProposeTour(content, tourSlots.v)
     ELSE ClassifyText(content)

\* one step of the loop of LangChainAgent.extractTourSlotsFromSteps: the
\* slots a step yields, or Null when the loop goes on to the next step.
\* A step is a tuple [action, observation] or an object {action, observation}
\* (legacy); the legacy branch parses the observation whatever its type, and
\* JSON.parse of an array of timestamps or of an object throws
StepSlots(step) ==
  IF step.action.tool # TourSlotsTool THEN Null
  ELSE IF step.fmt = "tuple"
  THEN LET o == step.observation IN
       IF o.k = "str" /\ JsonParseThrows(o) THEN Null
       ELSE LET res == IF o.k = "str" THEN JsonParse(o) ELSE o IN
            IF IsArray(res) /\ Len(res.v) > 0 THEN res ELSE Null
  ELSE LET o == step.observation IN
       IF o.k = "str" /\ ~JsonParseThrows(o)
       THEN (IF IsArray(JsonParse(o)) /\ Len(JsonParse(o).v) > 0 THEN JsonParse(o) ELSE Null)
       ELSE Null

RECURSIVE FirstStepSlots(_, _)
FirstStepSlots(steps, i) ==
  IF i > Len(steps) THEN Null
  ELSE IF StepSlots(steps[i]).k # "null" THEN StepSlots(steps[i])
  ELSE FirstStepSlots(steps, i + 1)

\* LangChainAgent.extractTourSlotsFromSteps: null when steps is missing or no
\* array, else the first non-empty list a step yields
ExtractTourSlotsFromSteps(steps) ==
  IF ~IsArray(steps) THEN Null ELSE FirstStepSlots(steps.v, 1)

\* LangChainAgent.parseAgentResponse
ParseAgentResponse(output, steps) ==
  LET tourSlots == ExtractTourSlotsFromSteps(steps) IN
  IF tourSlots.k # "null" /\ Len(tourSlots.v) > 0
  THEN ProposeTour(output, tourSlots.v)
  ELSE ClassifyText(output)

\* ------------------------------------------------ classifier inputs -----
RECURSIVE SeqsUpTo(_, _)
SeqsUpTo(S, n) ==
  IF n = 0 THEN {<< >>}
  ELSE LET shorter == SeqsUpTo(S, n - 1) IN
       shorter \cup { Append(q, x) : q \in { t \in shorter : Len(t) = n - 1 }, x \in S }

Texts == SeqsUpTo(Fragments, MaxTextLen)

\* executeFunction's switch: the four domain operations
ToolNames == {"check_availability", "check_pet_policy", "get_pricing", TourSlotsTool}

\* what a tool's func returns: the tour-slot lookup an empty list or a list of
\* timestamps (as the JSON text of it, or as an array) or text that is not
\* JSON; the other tools the JSON text of an object
ToolOutputs(name) ==
  IF name = TourSlotsTool
  THEN { JsonStringify(Arr(<< >>)), JsonStringify(Arr(<<1, 2>>)), Arr(<<2>>), Str(InvalidText) }
  ELSE { JsonStringify(Obj) }

\* captured invocations {name, args, result}
Invocations ==
  { [name |-> TourSlotsTool, result |-> r] : r \in ToolOutputs(TourSlotsTool) }
    \cup { [name |-> "check_availability", result |-> r] : r \in ToolOutputs("check_availability") }

ToolResultLists == SeqsUpTo(Invocations, MaxIterations)

\* the intermediate steps AgentExecutor returns for the same invocations
StepsOf(toolResults) ==
  Arr([i \in DOMAIN toolResults |->
         [fmt |-> "tuple", action |-> [tool |-> toolResults[i].name],
          observation |-> toolResults[i].result]])

bookIdle ==
  /\ tour_slots = << >> /\ bookings = << >> /\ slotLock = << >> /\ bookingLock = << >>
  /\ pc = << >> /\ call = << >> /\ tx = << >> /\ result = << >> /\ hist = << >>
agentIdle ==
  /\ agent = [pc |-> "off"] /\ logs = << >> /\ winston = << >>
  /\ response = [kind |-> "none"]

InitClassify ==
  /\ bookIdle /\ agentIdle /\ envIdle
  /\ \E t \in Texts, r \in ToolResultLists :
       cls = [pc |-> "input", text |-> t, toolResults |-> r]

\* LLMAgent.parseResponse applied to the input
ClassifyLLM ==
  /\ cls.pc = "input"
  /\ cls' = [pc |-> "llm", text |-> cls.text, toolResults |-> cls.toolResults,
             out |-> ParseResponse(cls.text, cls.toolResults)]
  /\ UNCHANGED <<bookVars, envVars, agentVars>>

\* LangChainAgent.parseAgentResponse applied to the same input
ClassifyLangChain ==
  /\ cls.pc = "input"
  /\ cls' = [pc |-> "langchain", text |-> cls.text, toolResults |-> cls.toolResults,
             out |-> ParseAgentResponse(cls.text, StepsOf(cls.toolResults))]
  /\ UNCHANGED <<bookVars, envVars, agentVars>>

NextClassify == ClassifyLLM \/ ClassifyLangChain

SpecClassify == InitClassify /\ [][NextClassify]_vars

\* ------------------------------------------------ classifier claims -----
\* the non-empty timestamp lists among the results of the captured tour-slot
\* lookups (a result is the list itself or the JSON text of it)
NonEmptyLookups(toolResults) ==
  { TourSlotsOf(toolResults[i].result).v : i \in
      { j \in DOMAIN toolResults :
          /\ toolResults[j].name = TourSlotsTool
          /\ Truthy(toolResults[j].result)
          /\ IsArray(TourSlotsOf(toolResults[j].result))
          /\ TourSlotsOf(toolResults[j].result).v # << >> } }

Classified == cls.pc \in {"llm", "langchain"}

C9_FirstMatchWins ==
  (Classified /\ NonEmptyLookups(cls.toolResults) = {}) =>
    LET lower == ToLowerCase(cls.text)
        clar == IsAskingForClarification(lower)
        hand == ShouldHandoffToHuman(lower)
    IN /\ clar => cls.out.action = "ask_clarification"
       /\ (hand /\ ~clar) <=> cls.out.action = "handoff_human"
       /\ (~clar /\ ~hand) => cls.out.action = "ask_clarification"
       /\ cls.out.reply = cls.text

\* C9 witness: a text that matches a clarification and a handoff pattern
\* ("Could you ... unable"), classified ask_clarification by either classifier
\* while an empty tour-slot lookup was captured.
C9_Witness ==
  /\ Classified
  /\ cls.toolResults # << >> /\ NonEmptyLookups(cls.toolResults) = {}
  /\ IsAskingForClarification(ToLowerCase(cls.text))
  /\ ShouldHandoffToHuman(ToLowerCase(cls.text))
  /\ ~IsAskingForClarification(cls.text)
  /\ cls.out.action = "ask_clarification"


\* ====================================================== orchestrator ====
RequestId == "req-1"

\* reply texts the oracle produces in the orchestrator model
SampleTexts == { << >>, <<"hello">>, <<"Could you", "unable">>, <<"sorry", "can't">> }

\* function names the oracle may ask for: the four operations and one that
\* executeFunction does not know
FunctionNames == ToolNames \cup {"send_email"}

\* the fixed response of the catch block of processMessage
Fallback == [reply |-> <<"sorry", "trouble", "contact", "office">>, action |-> "handoff_human"]

\* LogEntry objects handed to Logger.logRequest
ToolEntry(name) == [request_id |-> RequestId, tool_name |-> name, llm_latency |-> FALSE, error |-> FALSE]
MetricsEntry(name) == [request_id |-> RequestId, tool_name |-> name, llm_latency |-> TRUE, error |-> FALSE]
ErrorEntry == [request_id |-> RequestId, tool_name |-> "none", llm_latency |-> TRUE, error |-> TRUE]

\* the payload given to the oracle in place of a tool result
ErrorPlaceholder == Obj

\* a tour-slot lookup that returned a non-empty list
LookupSucceeded(inv) ==
  /\ inv.name = TourSlotsTool
  /\ inv.result \in { JsonStringify(Arr(<<1, 2>>)), Arr(<<2>>) }

InitAgent ==
  /\ bookIdle /\ envIdle
  /\ cls = [pc |-> "off"]
  /\ \E k \in {"llm", "langchain"} :
       agent = [pc |-> "start", kind |-> k, fn |-> "none", toolResults |-> << >>,
                fed |-> Null, out |-> [action |-> "none"],
                failed |-> FALSE, toolFailed |-> FALSE, lookupOk |-> FALSE]
  /\ logs = << >>
  /\ winston = << >>
  /\ response = [kind |-> "none"]

\* the catch block of processMessage up to its await: it builds the error
\* LogEntry and calls logRequest, whose winston.info runs before the INSERT
\* is sent
EnterCatch ==
  /\ winston' = Append(winston, ErrorEntry)
  /\ agent' = [agent EXCEPT !.pc = "log_error", !.failed = TRUE]
  /\ UNCHANGED <<logs, response>>

\* LLMAgent: the first oracle call answers without a function call; the text
\* is classified with no tool results and the metrics are logged
LlmReplyDirect(content) ==
  /\ agent.pc = "start" /\ agent.kind = "llm"
  /\ winston' = Append(winston, MetricsEntry("none"))
  /\ agent' = [agent EXCEPT !.pc = "log_metrics", !.out = ParseResponse(content, << >>)]
  /\ UNCHANGED <<logs, response, bookVars, envVars, cls>>

\* LLMAgent: the first oracle call asks for a function and its arguments
\* parse; executeFunction is awaited
LlmFunctionCall(name) ==
  /\ agent.pc = "start" /\ agent.kind = "llm"
  /\ agent' = [agent EXCEPT !.pc = "tool", !.fn = name]
  /\ UNCHANGED <<logs, winston, response, bookVars, envVars, cls>>

\* LLMAgent: the function call's arguments are not JSON; JSON.parse throws
\* outside the inner try
LlmMalformedArguments ==
  /\ agent.pc = "start" /\ agent.kind = "llm"
  /\ EnterCatch
  /\ UNCHANGED <<bookVars, envVars, cls>>

\* either oracle call of LLMAgent fails (or answers without choices)
LlmCallFails ==
  /\ agent.pc \in {"start", "second"} /\ agent.kind = "llm"
  /\ EnterCatch
  /\ UNCHANGED <<bookVars, envVars, cls>>

\* executeFunction returns: the invocation is captured and its log entry is
\* handed to logRequest
ToolReturns(res) ==
  /\ agent.pc = "tool" /\ agent.fn \in ToolNames
  /\ res \in ToolOutputs(agent.fn)
  /\ LET inv == [name |-> agent.fn, result |-> res] IN
     agent' = [agent EXCEPT !.pc = "log_tool", !.toolResults = Append(@, inv),
                            !.lookupOk = LookupSucceeded(inv)]
  /\ winston' = Append(winston, ToolEntry(agent.fn))
  /\ UNCHANGED <<logs, response, bookVars, envVars, cls>>

\* (mutation of ToolThrows: without the inner try the error of executeFunction
\* reaches the catch block of processMessage)
ToolThrows_Propagates ==
  /\ agent.pc = "tool"
  /\ winston' = Append(winston, ErrorEntry)
  /\ agent' = [agent EXCEPT !.pc = "log_error", !.failed = TRUE, !.toolFailed = TRUE]
  /\ UNCHANGED <<logs, response, bookVars, envVars, cls>>

\* executeFunction throws (unknown function, or the tool's query fails): the
\* inner catch substitutes the placeholder
ToolThrows ==
  /\ agent.pc = "tool"
  /\ agent' = [agent EXCEPT !.pc = "second", !.fed = ErrorPlaceholder, !.toolFailed = TRUE]
  /\ UNCHANGED <<logs, winston, response, bookVars, envVars, cls>>

\* the INSERT of the tool's log entry succeeds
LogToolOk ==
  /\ agent.pc = "log_tool"
  /\ logs' = Append(logs, ToolEntry(agent.fn))
  /\ agent' = [agent EXCEPT !.pc = "second", !.fed = agent.toolResults[1].result]
  /\ UNCHANGED <<winston, response, bookVars, envVars, cls>>

\* the INSERT of the tool's log entry fails: logRequest rethrows inside the
\* inner try, whose catch substitutes the placeholder; the captured
\* invocation stays in toolResults
LogToolFails ==
  /\ agent.pc = "log_tool"
  /\ agent' = [agent EXCEPT !.pc = "second", !.fed = ErrorPlaceholder]
  /\ UNCHANGED <<logs, winston, response, bookVars, envVars, cls>>

\* LLMAgent: the second oracle call answers; the text is classified with the
\* captured invocations and the metrics are logged
LlmSecondReply(content) ==
  /\ agent.pc = "second" /\ agent.kind = "llm"
  /\ winston' = Append(winston, MetricsEntry(agent.fn))
  /\ agent' = [agent EXCEPT !.pc = "log_metrics",
                            !.out = ParseResponse(content, agent.toolResults)]
  /\ UNCHANGED <<logs, response, bookVars, envVars, cls>>

\* LangChainAgent: agentExecutor.invoke answers with its output and the
\* intermediate steps of the tools it ran
LcInvoke(output, invs) ==
  /\ agent.pc = "start" /\ agent.kind = "langchain"
  /\ winston' = Append(winston, MetricsEntry("langchain_agent"))
  /\ agent' = [agent EXCEPT !.pc = "log_metrics", !.toolResults = invs,
                            !.lookupOk = \E i \in DOMAIN invs : LookupSucceeded(invs[i]),
                            !.out = ParseAgentResponse(output, StepsOf(invs))]
  /\ UNCHANGED <<logs, response, bookVars, envVars, cls>>

\* LangChainAgent: initializeAgent or agentExecutor.invoke throws
LcInvokeFails ==
  /\ agent.pc = "start" /\ agent.kind = "langchain"
  /\ EnterCatch
  /\ UNCHANGED <<bookVars, envVars, cls>>

\* the INSERT of the metrics entry succeeds: processMessage returns
LogMetricsOk ==
  /\ agent.pc = "log_metrics"
  /\ logs' = Append(logs, winston[Len(winston)])
  /\ response' = [kind |-> "resolved", value |-> agent.out]
  /\ agent' = [agent EXCEPT !.pc = "done"]
  /\ UNCHANGED <<winston, bookVars, envVars, cls>>

\* the INSERT of the metrics entry fails: logRequest rethrows into the catch
\* block of processMessage
LogMetricsFails ==
  /\ agent.pc = "log_metrics"
  /\ EnterCatch
  /\ UNCHANGED <<bookVars, envVars, cls>>

\* the INSERT of the catch block's entry succeeds: the fallback is returned
LogErrorOk ==
  /\ agent.pc = "log_error"
  /\ logs' = Append(logs, ErrorEntry)
  /\ response' = [kind |-> "resolved", value |-> Fallback]
  /\ agent' = [agent EXCEPT !.pc = "done"]
  /\ UNCHANGED <<winston, bookVars, envVars, cls>>

\* the INSERT of the catch block's entry fails: logRequest rethrows out of
\* the catch block and the promise of processMessage is rejected
LogErrorFails ==
  /\ agent.pc = "log_error"
  /\ response' = [kind |-> "rejected"]
  /\ agent' = [agent EXCEPT !.pc = "done"]
  /\ UNCHANGED <<logs, winston, bookVars, envVars, cls>>

NextAgent ==
  \/ \E c \in SampleTexts : LlmReplyDirect(c)
  \/ \E n \in FunctionNames : LlmFunctionCall(n)
  \/ LlmMalformedArguments
  \/ LlmCallFails
  \/ \E r \in ToolOutputs(TourSlotsTool) \cup ToolOutputs("get_pricing") : ToolReturns(r)
  \/ ToolThrows
  \/ LogToolOk
  \/ LogToolFails
  \/ \E c \in SampleTexts : LlmSecondReply(c)
  \/ \E o \in SampleTexts, i \in ToolResultLists : LcInvoke(o, i)
  \/ LcInvokeFails
  \/ LogMetricsOk
  \/ LogMetricsFails
  \/ LogErrorOk
  \/ LogErrorFails

SpecAgent == InitAgent /\ [][NextAgent]_vars

\* ============================================================ router ===
\* The responses of createChatRouter.  A response is its status, the
\* request_id of its JSON body and its X-Request-ID header ("none": absent).
HttpResponse(status, bodyId, headerId) ==
  [status |-> status, body_request_id |-> bodyId, header_request_id |-> headerId]

\* POST /book-tour after leasingTools.bookTourSlot has settled with res
BookTourResponse(rid, res) ==
  CASE res = "success" -> HttpResponse(200, rid, "none")
    [] res = "not_available" -> HttpResponse(400, rid, "none")
    [] OTHER -> HttpResponse(500, rid, "none")

\* POST /bookings/:booking_id/cancel after leasingTools.cancelBooking has
\* settled with res
CancelResponse(rid, res) ==
  CASE res = "true" -> HttpResponse(200, rid, "none")
    [] res = "false" -> HttpResponse(400, rid, "none")
    [] OTHER -> HttpResponse(500, rid, "none")

\* ------------------------------------------------ request values -------
\* JavaScript values of the fields of a request body: undefined (the field
\* is absent), a string (a sequence of characters) or a number
Undefined == [k |-> "undefined"]
Text(chars) == [k |-> "text", v |-> chars]
Num == [k |-> "num"]
\* the characters of request strings: a blank and a letter
Chars == {" ", "a"}
\* the strings of at most MaxTextLen characters
Strings == UNION { [1..n -> Chars] : n \in 0..MaxTextLen }

\* !v
Not(v) == v.k = "undefined" \/ (v.k = "text" /\ v.v = << >>)

RECURSIVE TrimStart(_)
TrimStart(chars) ==
  IF chars # << >> /\ Head(chars) = " " THEN TrimStart(Tail(chars)) ELSE chars
RECURSIVE TrimEnd(_)
TrimEnd(chars) ==
  IF chars # << >> /\ chars[Len(chars)] = " "
    THEN TrimEnd(SubSeq(chars, 1, Len(chars) - 1))
    ELSE chars
\* String.prototype.trim
Trim(chars) == TrimEnd(TrimStart(chars))

\* chatRequest.lead?.name, chatRequest.lead?.email
LeadField(lead, f) == IF lead.k = "undefined" THEN Undefined ELSE lead[f]
\* chatRequest.message?.trim() throws a TypeError when message is neither
\* absent nor a string
TrimThrows(message) == message.k = "num"
OptionalTrim(message) ==
  IF message.k = "undefined" THEN Undefined ELSE Text(Trim(message.v))

\* the bodies POST /reply may receive
Leads == {Undefined} \cup
         { [k |-> "obj", name |-> n, email |-> e] :
             n \in {Undefined, Text(<< >>), Text(<<"a">>)},
             e \in {Undefined, Text(<< >>), Text(<<"a">>)} }
Messages == {Undefined, Num} \cup { Text(c) : c \in Strings }
CommunityIds == {Undefined, Text(<< >>), Text(<<"a">>)}
ReplyBodies == [lead : Leads, message : Messages, community_id : CommunityIds]
\* the bodies POST /book-tour may receive: which required fields are there
BookTourBodies == [community_id : BOOLEAN, slot_time : BOOLEAN,
                   lead_name : BOOLEAN, lead_email : BOOLEAN]

NoResponse == HttpResponse(0, "none", "none")

\* a request has arrived at one of the routes and uuidv4() has named it
Received(endpoint, req) ==
  [stage |-> "received", endpoint |-> endpoint, req |-> req,
   request_id |-> RequestId, res |-> NoResponse]

InitBoundary ==
  /\ bookIdle /\ agentIdle
  /\ cls = [pc |-> "off"]
  /\ now = 0 /\ sharedIdle
  /\ \/ \E b \in ReplyBodies : http = Received("reply", b)
     \/ \E b \in BookTourBodies : http = Received("book-tour", b)
     \/ \E e \in {"bookings", "booking", "cancel"} : http = Received(e, [none |-> TRUE])

\* the handler answers and is finished
Respond(r) == http' = [http EXCEPT !.stage = "responded", !.res = r]

InReply == http.stage = "received" /\ http.endpoint = "reply"
LeadMissing ==
  Not(LeadField(http.req.lead, "name")) \/ Not(LeadField(http.req.lead, "email"))
\* (mutation of MessageEmpty: the message is tested without trim())
MessageEmpty_NoTrim == Not(http.req.message)
MessageEmpty ==
  ~TrimThrows(http.req.message) /\ Not(OptionalTrim(http.req.message))

\* POST /reply: lead name or email missing
ReplyRejectLead ==
  /\ InReply
  /\ LeadMissing
  /\ Respond(HttpResponse(400, "none", "none"))
  /\ UNCHANGED <<bookVars, nonBookVars, now, sharedVars>>

\* POST /reply: message absent, empty or blank
ReplyRejectMessage ==
  /\ InReply
  /\ ~LeadMissing
  /\ MessageEmpty
  /\ Respond(HttpResponse(400, "none", "none"))
  /\ UNCHANGED <<bookVars, nonBookVars, now, sharedVars>>

\* POST /reply: message is not a string; .trim() throws inside the try block
\* and the catch block answers
ReplyTrimThrows ==
  /\ InReply
  /\ ~LeadMissing
  /\ TrimThrows(http.req.message)
  /\ Respond(HttpResponse(500, http.request_id, "none"))
  /\ UNCHANGED <<bookVars, nonBookVars, now, sharedVars>>

\* POST /reply: community_id missing
ReplyRejectCommunity ==
  /\ InReply
  /\ ~LeadMissing
  /\ ~TrimThrows(http.req.message) /\ ~MessageEmpty
  /\ Not(http.req.community_id)
  /\ Respond(HttpResponse(400, "none", "none"))
  /\ UNCHANGED <<bookVars, nonBookVars, now, sharedVars>>

\* POST /reply: the body is valid; agent.processMessage(chatRequest,
\* requestId) is called on the LangChainAgent and awaited
ReplyProcessMessage ==
  /\ InReply
  /\ ~LeadMissing
  /\ ~TrimThrows(http.req.message) /\ ~MessageEmpty
  /\ ~Not(http.req.community_id)
  /\ http' = [http EXCEPT !.stage = "core"]
  /\ agent' = [pc |-> "start", kind |-> "langchain", fn |-> "none", toolResults |-> << >>,
               fed |-> Null, out |-> [action |-> "none"],
               failed |-> FALSE, toolFailed |-> FALSE, lookupOk |-> FALSE]
  /\ UNCHANGED <<bookVars, logs, winston, response, cls, now, sharedVars>>

\* POST /reply: processMessage resolved; the X-Request-ID header is set and
\* the ChatResponse is the body
ReplyReturns ==
  /\ http.stage = "core"
  /\ agent.pc = "done" /\ response.kind = "resolved"
  /\ Respond(HttpResponse(200, "none", http.request_id))
  /\ UNCHANGED <<bookVars, nonBookVars, now, sharedVars>>

\* POST /reply: processMessage rejected; the catch block answers
ReplyCatch ==
  /\ http.stage = "core"
  /\ agent.pc = "done" /\ response.kind = "rejected"
  /\ Respond(HttpResponse(500, http.request_id, "none"))
  /\ UNCHANGED <<bookVars, nonBookVars, now, sharedVars>>

\* POST /book-tour: a required field is missing
BookTourRejectFields ==
  /\ http.stage = "received" /\ http.endpoint = "book-tour"
  /\ \E f \in DOMAIN http.req : ~http.req[f]
  /\ Respond(HttpResponse(400, http.request_id, "none"))
  /\ UNCHANGED <<bookVars, nonBookVars, now, sharedVars>>

\* POST /book-tour: leasingTools.bookTourSlot settles with res
BookTourSettles(res) ==
  /\ http.stage = "received" /\ http.endpoint = "book-tour"
  /\ \A f \in DOMAIN http.req : http.req[f]
  /\ Respond(BookTourResponse(http.request_id, res))
  /\ UNCHANGED <<bookVars, nonBookVars, now, sharedVars>>

\* GET /bookings: leasingTools.getBookings returns the rows or throws
BookingsSettles(res) ==
  /\ http.stage = "received" /\ http.endpoint = "bookings"
  /\ Respond(HttpResponse(IF res = "rows" THEN 200 ELSE 500, http.request_id, "none"))
  /\ UNCHANGED <<bookVars, nonBookVars, now, sharedVars>>

\* GET /bookings/:booking_id: leasingTools.getBooking returns a row or null,
\* or throws
BookingSettles(res) ==
  /\ http.stage = "received" /\ http.endpoint = "booking"
  /\ Respond(HttpResponse(CASE res = "row" -> 200 [] res = "null" -> 404 [] OTHER -> 500,
                          http.request_id, "none"))
  /\ UNCHANGED <<bookVars, nonBookVars, now, sharedVars>>

\* POST /bookings/:booking_id/cancel: leasingTools.cancelBooking settles
CancelSettles(res) ==
  /\ http.stage = "received" /\ http.endpoint = "cancel"
  /\ Respond(CancelResponse(http.request_id, res))
  /\ UNCHANGED <<bookVars, nonBookVars, now, sharedVars>>

NextBoundary ==
  \/ ReplyRejectLead
  \/ ReplyRejectMessage
  \/ ReplyTrimThrows
  \/ ReplyRejectCommunity
  \/ ReplyProcessMessage
  \/ \E o \in SampleTexts, i \in ToolResultLists : LcInvoke(o, i)
  \/ LcInvokeFails
  \/ LogMetricsOk
  \/ LogMetricsFails
  \/ LogErrorOk
  \/ LogErrorFails
  \/ ReplyReturns
  \/ ReplyCatch
  \/ BookTourRejectFields
  \/ \E res \in {"success", "not_available", "thrown"} : BookTourSettles(res)
  \/ \E res \in {"rows", "thrown"} : BookingsSettles(res)
  \/ \E res \in {"row", "null", "thrown"} : BookingSettles(res)
  \/ \E res \in {"true", "false", "thrown"} : CancelSettles(res)

SpecBoundary == InitBoundary /\ [][NextBoundary]_vars

\* ============================================ concurrent inquiries =====
\* Several processMessage invocations on the one LangChainAgent object that
\* index.ts constructs.  The object's fields llm, tools and logger are set
\* in the constructor and never assigned again; agentExecutor is assigned by
\* initializeAgent.  Everything else an invocation uses is a local.
NumRequests == 2
Requests == 1..NumRequests

\* the AgentExecutor initializeAgent builds: the same configuration each time
Executor == [k |-> "obj", maxIterations |-> MaxIterations, returnIntermediateSteps |-> TRUE]

\* what agentExecutor.invoke resolves with: output and intermediateSteps
AgentAnswers ==
  { [output |-> <<"hello">>,
     invs |-> << [name |-> TourSlotsTool, result |-> JsonStringify(Arr(<<1, 2>>))] >>],
    [output |-> <<"sorry", "can't">>, invs |-> << >>] }
NoAnswer == [output |-> << >>, invs |-> << >>]

\* the locals of an invocation: position, whether it ran initializeAgent,
\* the oracle's answer to it, the first external fault that hit it, the
\* response it built and how its promise settled
NewMsg == [pc |-> "idle", ranInit |-> FALSE, asked |-> FALSE, answer |-> NoAnswer,
           fault |-> "none", out |-> [action |-> "none"], response |-> [kind |-> "none"]]

MsgEntry(r, isError) == [request_id |-> r, llm_latency |-> TRUE, error |-> isError]

InitShared ==
  /\ bookIdle /\ agentIdle
  /\ cls = [pc |-> "off"]
  /\ now = 0 /\ http = [stage |-> "off"] /\ queryIdle
  /\ agentExecutor = Null
  /\ msgs = [r \in Requests |-> NewMsg]

\* the catch block of processMessage up to its await of logRequest
MsgCatch(r, fault) ==
  /\ msgs' = [msgs EXCEPT ![r].pc = "log_error",
                          ![r].fault = IF msgs[r].fault = "none" THEN fault ELSE msgs[r].fault]
  /\ winston' = Append(winston, MsgEntry(r, TRUE))

\* (mutation of MsgEnter: every invocation rebuilds the executor and clears
\* the field first)
MsgEnter_AlwaysReinitialize(r) ==
  /\ msgs[r].pc = "idle"
  /\ agentExecutor' = Null
  /\ msgs' = [msgs EXCEPT ![r].pc = "init", ![r].ranInit = TRUE]
  /\ UNCHANGED <<bookVars, nonBookVars, now, http, units, query>>

\* processMessage is called: if (!this.agentExecutor) it starts
\* initializeAgent and awaits it, else it goes on to invoke
MsgEnter(r) ==
  /\ msgs[r].pc = "idle"
  /\ IF agentExecutor = Null
       THEN msgs' = [msgs EXCEPT ![r].pc = "init", ![r].ranInit = TRUE]
       ELSE msgs' = [msgs EXCEPT ![r].pc = "invoke"]
  /\ UNCHANGED <<bookVars, nonBookVars, now, http, units, query, agentExecutor>>

\* initializeAgent: createOpenAIToolsAgent resolves and the new executor is
\* assigned to this.agentExecutor
MsgInitializeAgent(r) ==
  /\ msgs[r].pc = "init"
  /\ agentExecutor' = Executor
  /\ msgs' = [msgs EXCEPT ![r].pc = "invoke"]
  /\ UNCHANGED <<bookVars, nonBookVars, now, http, units, query>>

\* initializeAgent throws
MsgInitializeFails(r) ==
  /\ msgs[r].pc = "init"
  /\ MsgCatch(r, "init")
  /\ UNCHANGED <<bookVars, agent, logs, response, cls, now, http, units, query, agentExecutor>>

\* this.agentExecutor.invoke(agentInput) resolves with the oracle's answer a;
\* parseAgentResponse runs and logRequest is awaited.  On a field that holds
\* no executor the call is a TypeError, which the catch block takes.
MsgInvoke(r, a) ==
  /\ msgs[r].pc = "invoke"
  /\ IF agentExecutor = Null
       THEN MsgCatch(r, "none")
       ELSE /\ msgs' = [msgs EXCEPT ![r].pc = "log_metrics", ![r].asked = TRUE,
                                    ![r].answer = a,
                                    ![r].out = ParseAgentResponse(a.output, StepsOf(a.invs))]
            /\ winston' = Append(winston, MsgEntry(r, FALSE))
  /\ UNCHANGED <<bookVars, agent, logs, response, cls, now, http, units, query, agentExecutor>>

\* agentExecutor.invoke rejects
MsgInvokeFails(r) ==
  /\ msgs[r].pc = "invoke"
  /\ agentExecutor # Null
  /\ MsgCatch(r, "oracle")
  /\ UNCHANGED <<bookVars, agent, logs, response, cls, now, http, units, query, agentExecutor>>

\* the INSERT of the metrics entry succeeds: the response is returned
MsgLogMetricsOk(r) ==
  /\ msgs[r].pc = "log_metrics"
  /\ logs' = Append(logs, MsgEntry(r, FALSE))
  /\ msgs' = [msgs EXCEPT ![r].pc = "done",
                          ![r].response = [kind |-> "resolved", value |-> msgs[r].out]]
  /\ UNCHANGED <<bookVars, agent, winston, response, cls, now, http, units, query, agentExecutor>>

\* the INSERT of the metrics entry fails: logRequest rethrows into the catch
\* block
MsgLogMetricsFails(r) ==
  /\ msgs[r].pc = "log_metrics"
  /\ MsgCatch(r, "log_metrics")
  /\ UNCHANGED <<bookVars, agent, logs, response, cls, now, http, units, query, agentExecutor>>

\* the INSERT of the catch block's entry succeeds: the fallback is returned
MsgLogErrorOk(r) ==
  /\ msgs[r].pc = "log_error"
  /\ logs' = Append(logs, MsgEntry(r, TRUE))
  /\ msgs' = [msgs EXCEPT ![r].pc = "done",
                          ![r].response = [kind |-> "resolved", value |-> Fallback]]
  /\ UNCHANGED <<bookVars, agent, winston, response, cls, now, http, units, query, agentExecutor>>

\* the INSERT of the catch block's entry fails: the promise is rejected
MsgLogErrorFails(r) ==
  /\ msgs[r].pc = "log_error"
  /\ msgs' = [msgs EXCEPT ![r].pc = "done", ![r].response = [kind |-> "rejected"],
                          ![r].fault = IF msgs[r].fault = "none" THEN "log_error"
                                       ELSE msgs[r].fault]
  /\ UNCHANGED <<bookVars, nonBookVars, now, http, units, query, agentExecutor>>

NextShared ==
  \E r \in Requests :
    \/ MsgEnter(r)
    \/ MsgInitializeAgent(r)
    \/ MsgInitializeFails(r)
    \/ \E a \in AgentAnswers : MsgInvoke(r, a)
    \/ MsgInvokeFails(r)
    \/ MsgLogMetricsOk(r)
    \/ MsgLogMetricsFails(r)
    \/ MsgLogErrorOk(r)
    \/ MsgLogErrorFails(r)

SpecShared == InitShared /\ [][NextShared]_vars

\* ================================================ read-only queries ====
\* The read-only methods of DomainTools as functions of the tables: each is
\* one SELECT sent with this.db.query.
MaxUnits == 2
UnitIds == 1..MaxUnits
Communities == {"sunset-ridge", "oak-hill"}
\* units.bedrooms: a studio has 0
BedroomCounts == 0..2
\* the rows units may hold; unit_number is the place of the row's unit
\* number in the column's sort order (two rows may carry the same number)
UnitRows == [community_id : Communities, unit_number : 1..MaxUnits,
             bedrooms : BedroomCounts, available : BOOLEAN]

\* an optional numeric argument: left out, or a number
Given(n) == [k |-> "num", v |-> n]
\* if (bedrooms), limit = 5: what JavaScript makes of the argument
IsTruthyNumber(arg) == arg.k = "num" /\ arg.v # 0

\* the orders ORDER BY may return the rows of S in: ascending by key, rows
\* with equal keys in any order
OrderedBy(S, key(_)) ==
  { rows \in [1..Cardinality(S) -> S] :
      /\ \A i, j \in DOMAIN rows : i # j => rows[i] # rows[j]
      /\ \A i, j \in DOMAIN rows : i < j => key(rows[i]) <= key(rows[j]) }

\* checkAvailability: the WHERE clause the method builds.  The bedrooms
\* condition is appended only if (bedrooms) holds.
CheckAvailabilityWhere(community_id, bedrooms) ==
  { u \in DOMAIN units :
      /\ units[u].community_id = community_id
      /\ units[u].available = TRUE
      /\ IsTruthyNumber(bedrooms) => units[u].bedrooms = bedrooms.v }

UnitNumber(u) == units[u].unit_number

\* the calls of checkAvailability that are made
CheckAvailabilityCalls ==
  { [pc |-> "call", op |-> "checkAvailability", community_id |-> c, bedrooms |-> b] :
      c \in Communities, b \in {Undefined} \cup { Given(n) : n \in BedroomCounts } }

\* ---- getAvailableTourSlots
MaxSlots == 6
\* limit: number = 5
DefaultLimit == 5
\* the tour_slots tables the query is run on: row i is a free slot of the
\* community, a full one, one flagged unavailable, or a slot of another
\* community; slot times are distinct and not in row order
SlotTimeOf(i) == IF i % 2 = 1 THEN i + 1 ELSE i - 1
SlotKinds == {"free", "full", "unavailable", "elsewhere"}
QuerySlotRow(i, kind) ==
  [community_id |-> IF kind = "elsewhere" THEN "oak-hill" ELSE "sunset-ridge",
   slot_time |-> SlotTimeOf(i),
   available |-> kind # "unavailable",
   max_capacity |-> 1,
   current_bookings |-> IF kind = "full" THEN 1 ELSE 0]
QuerySlotTables ==
  { [i \in 1..MaxSlots |-> QuerySlotRow(i, kinds[i])] : kinds \in [1..MaxSlots -> SlotKinds] }
\* NOW() when the query runs
QueryTimes == {0, 2}

\* (mutation of TourSlotsWhere: the WHERE clause lacks slot_time > NOW())
TourSlotsWhere_NoClock(community_id) ==
  { s \in DOMAIN tour_slots :
      /\ tour_slots[s].community_id = community_id
      /\ tour_slots[s].available = TRUE
      /\ tour_slots[s].current_bookings < tour_slots[s].max_capacity }

\* getAvailableTourSlots: the rows its WHERE clause matches
TourSlotsWhere(community_id) ==
  { s \in DOMAIN tour_slots : tour_slots[s].community_id = community_id /\ Offerable(s) }

SlotTime(s) == tour_slots[s].slot_time
\* Date.prototype.toISOString of a slot_time
ToISOString(t) == [k |-> "text", iso |-> t]
\* LIMIT n
Limit(rows, n) == SubSeq(rows, 1, IF n < Len(rows) THEN n ELSE Len(rows))
\* a parameter with a default value
OrDefault(arg, default) == IF arg.k = "undefined" THEN default ELSE arg.v

GetAvailableTourSlotsCalls ==
  { [pc |-> "call", op |-> "getAvailableTourSlots", community_id |-> c, limit |-> l] :
      c \in {"sunset-ridge"}, l \in {Undefined, Given(0), Given(2)} }

InitQuery ==
  /\ slotLock = << >> /\ bookings = << >> /\ bookingLock = << >>
  /\ pc = << >> /\ call = << >> /\ tx = << >> /\ result = << >> /\ hist = << >>
  /\ agentIdle
  /\ cls = [pc |-> "off"]
  /\ http = [stage |-> "off"]
  /\ agentExecutor = Null /\ msgs = << >>
  /\ \/ /\ query \in CheckAvailabilityCalls
        /\ units \in [UnitIds -> UnitRows]
        /\ tour_slots = << >> /\ now = 0
     \/ /\ query \in GetAvailableTourSlotsCalls
        /\ units = << >>
        /\ tour_slots \in QuerySlotTables /\ now \in QueryTimes

\* checkAvailability(community_id, bedrooms): the SELECT returns its rows,
\* which are mapped to AvailabilityResult objects one by one
CheckAvailability ==
  /\ query.pc = "call" /\ query.op = "checkAvailability"
  /\ \E rows \in OrderedBy(CheckAvailabilityWhere(query.community_id, query.bedrooms), UnitNumber) :
       query' = [query EXCEPT !.pc = "returned"] @@ [result |-> rows]
  /\ UNCHANGED <<bookVars, nonBookVars, now, http, agentExecutor, msgs, units>>

\* (mutation of ReadAvailableTourSlots: listing a slot reserves a unit of it)
ReadAvailableTourSlots_Reserves ==
  /\ query.pc = "call" /\ query.op = "getAvailableTourSlots"
  /\ query' = [query EXCEPT !.pc = "returned"] @@ [result |-> << >>]
  /\ tour_slots' = [s \in DOMAIN tour_slots |->
                      IF s \in TourSlotsWhere(query.community_id)
                      THEN [tour_slots[s] EXCEPT !.current_bookings = @ + 1]
                      ELSE tour_slots[s]]
  /\ UNCHANGED <<bookings, slotLock, bookingLock, pc, call, tx, result, hist,
                 nonBookVars, now, http, agentExecutor, msgs, units>>

\* getAvailableTourSlots(community_id, limit): the SELECT returns its rows,
\* whose slot_time is mapped to its ISO string
ReadAvailableTourSlots ==
  /\ query.pc = "call" /\ query.op = "getAvailableTourSlots"
  /\ \E rows \in OrderedBy(TourSlotsWhere(query.community_id), SlotTime) :
       LET limited == Limit(rows, OrDefault(query.limit, DefaultLimit)) IN
       query' = [query EXCEPT !.pc = "returned"]
                  @@ [result |-> [i \in DOMAIN limited |-> ToISOString(SlotTime(limited[i]))]]
  /\ UNCHANGED <<bookVars, nonBookVars, now, http, agentExecutor, msgs, units>>

\* this.db.query rejects: the method rethrows
QueryRejects ==
  /\ query.pc = "call"
  /\ query' = [query EXCEPT !.pc = "thrown"]
  /\ UNCHANGED <<bookVars, nonBookVars, now, http, agentExecutor, msgs, units>>

NextQuery ==
  \/ CheckAvailability
  \/ ReadAvailableTourSlots
  \/ QueryRejects

SpecQuery == InitQuery /\ [][NextQuery]_vars

\* ============================================ reads beside bookings ====
\* The read-only methods while booking and cancellation transactions run.
\* Each is one statement on a pooled connection in autocommit: it sees the
\* committed rows of the moment it runs, takes no row lock and waits for
\* none.
ReadSeedSlots ==
  [s \in SlotIds |->
     [community_id |-> Community, slot_time |-> s, available |-> TRUE,
      max_capacity |-> IF s = 1 THEN MaxCapacity ELSE 1,
      current_bookings |-> IF s = 1 THEN 1 ELSE 0]]
\* the units seedData inserts, as far as checkAvailability tests them
SeedUnits ==
  [u \in UnitIds |-> [community_id |-> Community, unit_number |-> u,
                      bedrooms |-> 2, available |-> u = 1]]

InitReads ==
  /\ tour_slots = ReadSeedSlots
  /\ bookings = SeedBookings(tour_slots)
  /\ slotLock = [s \in SlotIds |-> 0]
  /\ bookingLock = [b \in BookingIds |-> 0]
  /\ pc = [p \in Procs |-> "idle"]
  /\ call = [p \in Procs |-> NoCall]
  /\ tx = [p \in Procs |-> NoTx]
  /\ result = [p \in Procs |-> "none"]
  /\ hist = [p \in Procs |-> NoHist]
  /\ agentIdle
  /\ cls = [pc |-> "off"]
  /\ now = 0 /\ http = [stage |-> "off"]
  /\ agentExecutor = Null /\ msgs = << >>
  /\ units = SeedUnits
  /\ query = [pc |-> "off"]

\* the read-only calls made
ReadCalls ==
  { [pc |-> "call", op |-> "checkAvailability", community_id |-> Community, bedrooms |-> Given(2)],
    [pc |-> "call", op |-> "getAvailableTourSlots", community_id |-> Community, limit |-> Undefined],
    [pc |-> "call", op |-> "getBookings"],
    [pc |-> "call", op |-> "getBooking", booking_id |-> 0],
    [pc |-> "call", op |-> "checkPetPolicy", community_id |-> Community],
    [pc |-> "call", op |-> "getPricing", community_id |-> Community] }

\* a caller invokes a read-only method; the previous one has settled
ReadCall(q) ==
  /\ query.pc \in {"off", "returned", "thrown"}
  /\ query' = q
  /\ UNCHANGED <<bookVars, nonBookVars, now, http, agentExecutor, msgs, units>>

\* the row getBookings / getBooking return for booking b: bookings joined
\* with tour_slots
BookingRow(b) ==
  [booking_id |-> b, status |-> bookings[b].status,
   slot_time |-> tour_slots[bookings[b].tour_slot_id].slot_time,
   max_capacity |-> tour_slots[bookings[b].tour_slot_id].max_capacity,
   current_bookings |-> tour_slots[bookings[b].tour_slot_id].current_bookings]

\* getBookings(): the joined rows of all bookings (their created_at order is
\* not modelled: the rows are returned as a set)
GetBookings ==
  /\ query.pc = "call" /\ query.op = "getBookings"
  /\ query' = [query EXCEPT !.pc = "returned"]
                @@ [result |-> { BookingRow(b) : b \in DOMAIN bookings }]
  /\ UNCHANGED <<bookVars, nonBookVars, now, http, agentExecutor, msgs, units>>

\* getBooking(booking_id): the joined row, or null
GetBooking ==
  /\ query.pc = "call" /\ query.op = "getBooking"
  /\ query' = [query EXCEPT !.pc = "returned"]
                @@ [result |-> IF query.booking_id \in DOMAIN bookings
                               THEN {BookingRow(query.booking_id)} ELSE {}]
  /\ UNCHANGED <<bookVars, nonBookVars, now, http, agentExecutor, msgs, units>>

\* checkPetPolicy, getPricing: one SELECT on pet_policies or pricing, tables
\* that are not modelled; the row found, or null
ReadPolicyOrPricing(found) ==
  /\ query.pc = "call" /\ query.op \in {"checkPetPolicy", "getPricing"}
  /\ query' = [query EXCEPT !.pc = "returned"] @@ [result |-> found]
  /\ UNCHANGED <<bookVars, nonBookVars, now, http, agentExecutor, msgs, units>>

FirstSlotKey == [community_id |-> Community, slot_time |-> 1]
\* the transactions of Next on the first slot and its seeded booking, and the
\* read-only calls
NextReads ==
  \/ \E p \in Procs : BookCall(p, FirstSlotKey)
  \/ \E p \in Procs : BookSelect(p)
  \/ \E p \in Procs : BookNotAvailable(p)
  \/ \E p \in Procs : BookUpdate(p)
  \/ \E p \in Procs : BookInsert(p)
  \/ \E p \in Procs : BookCommit(p)
  \/ \E p \in Procs : CancelCall(p, 0)
  \/ \E p \in Procs : CancelSelect(p)
  \/ \E p \in Procs : CancelFalse(p)
  \/ \E p \in Procs : CancelUpdateBooking(p)
  \/ \E p \in Procs : CancelUpdateSlot(p)
  \/ \E p \in Procs : CancelCommit(p)
  \/ \E p \in Procs : BeginFault(p, [name |-> "bookTourSlot", key |-> FirstSlotKey])
  \/ \E p \in Procs : QueryFault(p)
  \/ \E p \in Procs : CatchRollback(p)
  \/ \E q \in ReadCalls : ReadCall(q)
  \/ CheckAvailability
  \/ ReadAvailableTourSlots
  \/ GetBookings
  \/ GetBooking
  \/ \E found \in BOOLEAN : ReadPolicyOrPricing(found)
  \/ QueryRejects

SpecReads == InitReads /\ [][NextReads]_vars

\* ---------------------------------------------- orchestrator claims -----
Done == agent.pc = "done"
Actions == {"propose_tour", "ask_clarification", "handoff_human"}

\* log rows of the request that carry llm_latency
LatencyRows == { i \in DOMAIN logs : logs[i].request_id = RequestId /\ logs[i].llm_latency }
ErrorRows == { i \in DOMAIN logs : logs[i].request_id = RequestId /\ logs[i].error }
\* entries of the request written to the winston sink that carry llm_latency
LatencyEntries == { i \in DOMAIN winston : winston[i].request_id = RequestId /\ winston[i].llm_latency }

\* C5: processMessage never throws to its caller: whenever it has finished,
\* it has returned a response with a reply and one of the three actions,
\* whatever failed inside.
C5_NeverThrows ==
  Done => /\ response.kind = "resolved"
          /\ response.value.action \in Actions

\* C6: on an internal failure (oracle failure, malformed oracle output, a
\* storage fault outside tool execution) the fixed fallback with action
\* handoff_human is returned and a LogEntry with its error field populated is
\* recorded for the request.
C6_FallbackOnFailure ==
  (Done /\ agent.failed) =>
    /\ response.kind = "resolved"
    /\ response.value = Fallback
    /\ ErrorRows # {}

\* C7: every completed request, successful or not, has exactly one LogEntry
\* carrying llm_latency.
C7_ExactlyOneLatencyEntry ==
  Done => /\ Cardinality(LatencyRows) = 1
          /\ Cardinality(LatencyEntries) = 1

\* C10: evidence for propose_tour.  A returned response has action
\* propose_tour only if the tour-slot lookup actually ran and returned a
\* non-empty list during this request; if the lookup failed, was not asked
\* for or returned an empty list, the action is ask_clarification or
\* handoff_human.
C10_ProposeOnlyOnEvidence ==
  response.kind = "resolved" =>
    /\ response.value.action = "propose_tour" => agent.lookupOk
    /\ ~agent.lookupOk => response.value.action \in {"ask_clarification", "handoff_human"}
    /\ response.value.action = "propose_tour" =>
         \E i \in DOMAIN agent.toolResults :
           /\ LookupSucceeded(agent.toolResults[i])
           /\ response.value.available_times = TourSlotsOf(agent.toolResults[i].result).v

\* C10 witness: LLMAgent asked for the tour-slot lookup, the lookup returned
\* the JSON text of two timestamps, and the returned response is propose_tour
\* with these two as available_times although the reply text matches a
\* handoff pattern.
C10_Witness ==
  /\ response.kind = "resolved"
  /\ agent.kind = "llm"
  /\ agent.toolResults = <<[name |-> TourSlotsTool, result |-> JsonStringify(Arr(<<1, 2>>))]>>
  /\ agent.lookupOk /\ ~agent.failed
  /\ ShouldHandoffToHuman(ToLowerCase(response.value.reply))
  /\ response.value.action = "propose_tour"
  /\ response.value.available_times = <<1, 2>>


\* =================================================== booking claims =====
IsBook(p) == call[p].name = "bookTourSlot"
IsCancel(p) == call[p].name = "cancelBooking"
KeyOf(s) == [community_id |-> tour_slots[s].community_id, slot_time |-> tour_slots[s].slot_time]
Min(a, b) == IF a <= b THEN a ELSE b

\* C1: in every reachable state every tour slot has
\* 0 <= current_bookings <= max_capacity, in the committed table and in the
\* row version an open transaction has written.
C1_CapacityBounds ==
  /\ \A s \in SlotIds :
       /\ 0 <= tour_slots[s].current_bookings
       /\ tour_slots[s].current_bookings <= tour_slots[s].max_capacity
  /\ \A p \in Procs : tx[p].slot # 0 =>
       /\ 0 <= tx[p].cur
       /\ tx[p].cur <= tour_slots[tx[p].slot].max_capacity

\* C1 witness: the only unit of a full slot was freed by a cancellation and
\* booked again: the counter went 1, 0, 1 and the slot is full.
C1_Witness ==
  \E s \in SlotIds, p \in Procs, q \in Procs :
    /\ tour_slots[s].max_capacity = 1
    /\ tour_slots[s].current_bookings = 1
    /\ IsCancel(q) /\ result[q] = "true" /\ hist[q].decremented
    /\ bookings[call[q].booking_id].tour_slot_id = s
    /\ IsBook(p) /\ call[p].key = KeyOf(s) /\ result[p] = "success"

\* the bookTourSlot calls on slot s that have returned, and those that succeeded
Attempts(s) == { p \in Procs : IsBook(p) /\ call[p].key = KeyOf(s) /\ pc[p] = "done" }
Successes(s) == { p \in Attempts(s) : result[p] = "success" }
InFlight(s) == { p \in Procs : IsBook(p) /\ call[p].key = KeyOf(s) /\ pc[p] # "done" }
\* current_bookings of slot s before the calls started (booking rows are never
\* deleted, and booking 0 is the one the first slot may start with)
Cur0(s) == IF s = 1 /\ 0 \in DOMAIN bookings THEN 1 ELSE 0
NoFaults == \A p \in Procs : hist[p].faultAt = "none"

\* C2: when only bookTourSlot calls run (no cancellation, no storage fault),
\* in any interleaving, on an available slot that started with
\* r = max_capacity - current_bookings free units never more than r calls
\* succeed, and once the n calls on it have returned exactly min(n, r)
\* succeeded, all the others returned the slot-not-available result, and
\* current_bookings has grown by the number of successes (it equals
\* max_capacity when n >= r).
C2_ExactlyMinSucceed ==
  (NoFaults /\ \A p \in Procs : ~IsCancel(p)) =>
    \A s \in SlotIds : tour_slots[s].available =>
      LET r == tour_slots[s].max_capacity - Cur0(s) IN
      /\ Cardinality(Successes(s)) <= r
      /\ InFlight(s) = {} =>
           /\ Cardinality(Successes(s)) = Min(Cardinality(Attempts(s)), r)
           /\ \A p \in Attempts(s) \ Successes(s) : result[p] = "not_available"
           /\ tour_slots[s].current_bookings = Cur0(s) + Cardinality(Successes(s))
           /\ Cardinality(Attempts(s)) >= r =>
                tour_slots[s].current_bookings = tour_slots[s].max_capacity

\* C2 witness: two calls raced for the last unit of a slot (the second was
\* invoked while the first was in its transaction); one succeeded, the other
\* got slot-not-available, and the slot is exactly full.
C2_Witness ==
  \E s \in SlotIds, p \in Procs, q \in Procs :
    /\ NoFaults /\ \A x \in Procs : ~IsCancel(x)
    /\ tour_slots[s].available
    /\ tour_slots[s].max_capacity - Cur0(s) = 1
    /\ p \in Successes(s) /\ q \in Attempts(s) /\ result[q] = "not_available"
    /\ hist[p].overlapped \/ hist[q].overlapped
    /\ Cardinality(Attempts(s)) = 2
    /\ tour_slots[s].current_bookings = tour_slots[s].max_capacity

\* C3: bookTourSlot is atomic.  In every step the committed counter of a slot
\* goes up exactly when a Booking row of that slot becomes visible, and then by
\* exactly one; a step in which a bookTourSlot call ends by throwing or with
\* slot-not-available changes no committed row; and the Booking row of an
\* attempt is visible exactly if the attempt returned success.
C3_BookingAtomic ==
  [][ /\ \A s \in SlotIds :
           /\ (tour_slots'[s].current_bookings > tour_slots[s].current_bookings)
                <=> (\E b \in DOMAIN bookings' \ DOMAIN bookings :
                        bookings'[b].tour_slot_id = s)
           /\ tour_slots'[s].current_bookings <= tour_slots[s].current_bookings + 1
      /\ \A p \in Procs :
           (IsBook(p) /\ result[p] = "none" /\ result'[p] \in {"thrown", "not_available"})
             => (tour_slots' = tour_slots /\ bookings' = bookings)
      /\ \A p \in Procs :
           (call'[p].name = "bookTourSlot") =>
             ((p \in DOMAIN bookings') <=> (result'[p] = "success"))
    ]_vars

\* C3 witness: a booking failed after its counter update (at the INSERT or at
\* the COMMIT), has thrown, and left neither a Booking row nor an increment.
C3_Witness ==
  \E p \in Procs :
    /\ IsBook(p) /\ result[p] = "thrown"
    /\ hist[p].faultAt \in {"b_insert", "b_commit"}
    /\ p \notin DOMAIN bookings
    /\ \A s \in SlotIds : tour_slots[s].current_bookings = Cur0(s)

CancelsOf(b) == { p \in Procs : IsCancel(p) /\ call[p].booking_id = b }

\* C4: for every booking, at most one cancelBooking call on it returns true
\* and at most one committed cancellation of it decrements the slot counter;
\* a call made on an already-cancelled booking never returns true, writes
\* nothing (neither the booking nor the counter), and returns false whenever
\* it returns (it throws only on a storage fault).
C4_CancelIdempotent ==
  /\ \A b \in BookingIds :
       /\ Cardinality({ p \in CancelsOf(b) : result[p] = "true" }) <= 1
       /\ Cardinality({ p \in CancelsOf(b) : hist[p].decremented }) <= 1
  /\ \A p \in Procs : (IsCancel(p) /\ hist[p].onCancelled) =>
       /\ result[p] # "true"
       /\ ~hist[p].decremented
       /\ tx[p].cancel = -1 /\ tx[p].slot = 0
       /\ (pc[p] = "done" /\ hist[p].faultAt = "none") => result[p] = "false"

\* C4 witness: a booking was cancelled (true, counter decremented) and a
\* second call on the cancelled booking returned false.
C4_Witness ==
  \E b \in BookingIds, p \in Procs, q \in Procs :
    /\ p \in CancelsOf(b) /\ result[p] = "true" /\ hist[p].decremented
    /\ q \in CancelsOf(b) /\ hist[q].onCancelled /\ result[q] = "false"
    /\ bookings[b].status = "cancelled"
    /\ tour_slots[bookings[b].tour_slot_id].current_bookings = 0

\* ============================================ response contract ========
\* C11: in every response processMessage returns, classified or fallback,
\* proposed_time is present exactly when the action is propose_tour, and
\* then it is the first element of available_times.
C11_ProposedTimeIffProposeTour ==
  response.kind = "resolved" =>
    LET r == response.value IN
    /\ ("proposed_time" \in DOMAIN r) <=> (r.action = "propose_tour")
    /\ ("proposed_time" \in DOMAIN r) =>
         /\ "available_times" \in DOMAIN r
         /\ Len(r.available_times) >= 1
         /\ r.proposed_time = r.available_times[1]

\* C11 witness: LangChainAgent returned propose_tour for a lookup of two
\* slots; proposed_time is the earlier one.
C11_Witness ==
  /\ response.kind = "resolved"
  /\ agent.kind = "langchain"
  /\ response.value.action = "propose_tour"
  /\ response.value.available_times = <<1, 2>>
  /\ response.value.proposed_time = 1

\* ================================================= offerable slots ====
\* C12: a slot is bookable only while it is offerable.  In the step in which
\* bookTourSlot succeeds, the slot it booked is available, has free capacity
\* and lies strictly in the future; an attempt on a slot whose time has
\* passed does not succeed.
C12_BookableOnlyWhileOfferable ==
  [][ \A p \in Procs :
        (result[p] # "success" /\ result'[p] = "success" /\ call[p].name = "bookTourSlot")
          => Offerable(tx[p].sel) ]_vars

\* ============================================= rejected bookings ======
\* why a booking of key cannot go through
SlotMissing(key) == \A s \in SlotIds : KeyOf(s) # key
SlotFlaggedUnavailable(key) == \E s \in SlotIds : KeyOf(s) = key /\ ~tour_slots[s].available
SlotFull(key) ==
  \E s \in SlotIds : /\ KeyOf(s) = key
                     /\ tour_slots[s].current_bookings >= tour_slots[s].max_capacity

\* C13: a rejected booking reveals nothing about why.  Whether the target
\* (community_id, slot_time) is a full slot, a slot flagged unavailable or a
\* slot that never existed when the SELECT runs, bookTourSlot takes the same
\* branch with nothing locked or written, and that branch returns the one
\* failure result and leaves all slots and bookings unchanged.
C13_RejectionRevealsNothing ==
  [][ \A p \in Procs :
        /\ ( /\ pc[p] = "b_select" /\ pc'[p] \notin {"b_select", "catch"}
             /\ \/ SlotMissing(call[p].key)
                \/ SlotFlaggedUnavailable(call[p].key)
                \/ SlotFull(call[p].key) )
           => /\ pc'[p] = "b_notfound"
              /\ tx'[p] = NoTx
              /\ \A s \in SlotIds : slotLock'[s] # p
        /\ (pc[p] = "b_notfound" /\ pc'[p] = "done")
           => /\ result'[p] = "not_available"
              /\ tour_slots' = tour_slots
              /\ bookings' = bookings ]_vars

\* C13 witness: one call was rejected on a key no slot has and another on an
\* existing slot that is full; both returned the same failure.
C13_Witness ==
  \E p, q \in Procs :
    /\ p # q
    /\ call[p].name = "bookTourSlot" /\ call[q].name = "bookTourSlot"
    /\ result[p] = "not_available" /\ result[q] = "not_available"
    /\ SlotMissing(call[p].key)
    /\ SlotFull(call[q].key) /\ ~SlotFlaggedUnavailable(call[q].key)
    /\ hist[p].faultAt = "none" /\ hist[q].faultAt = "none"

\* ============================================== booking lifecycle =====
\* C14: the status lifecycle of a Booking.  A booking row appears with
\* status confirmed, and once a row has status cancelled every later step of
\* bookTourSlot and cancelBooking leaves the row in place with that status.
C14_CancelledIsFinal ==
  [][ \A b \in BookingIds :
        /\ (b \notin DOMAIN bookings /\ b \in DOMAIN bookings')
             => bookings'[b].status = "confirmed"
        /\ (b \in DOMAIN bookings /\ bookings[b].status = "cancelled")
             => (b \in DOMAIN bookings' /\ bookings'[b].status = "cancelled")
        /\ (b \in DOMAIN bookings /\ b \in DOMAIN bookings' /\ bookings'[b].status # bookings[b].status)
             => (bookings[b].status = "confirmed" /\ bookings'[b].status = "cancelled") ]_vars

\* C14 witness: a booking made by one call was cancelled by another call,
\* which returned true.
C14_Witness ==
  \E b \in Procs, q \in Procs :
    /\ b \in DOMAIN bookings /\ bookings[b].status = "cancelled"
    /\ result[b] = "success"
    /\ call[q].name = "cancelBooking" /\ call[q].booking_id = b /\ result[q] = "true"

\* ================================================ tool failures =======
\* C15: when the operation the oracle asked for fails during execution (a
\* storage fault, or a name outside the four declared operations), the
\* placeholder {error: 'Unable to retrieve information at this time'} is what
\* is fed to the follow-up oracle call, the follow-up call is made (the tool
\* failure alone never enters the catch block), and unless something else
\* fails processMessage returns the classification of the oracle's reply,
\* not the fixed fallback.
C15_ToolFailureIsRecovered ==
  (agent.kind = "llm" /\ agent.toolFailed) =>
    /\ agent.fed = ErrorPlaceholder
    /\ agent.toolResults = << >>
    /\ agent.pc \in {"second", "log_metrics", "log_error", "done"}
    /\ agent.pc = "second" => (~agent.failed /\ response.kind = "none")
    /\ (Done /\ ~agent.failed) =>
         /\ response.kind = "resolved"
         /\ response.value = agent.out
         /\ response.value # Fallback
         /\ response.value.reply \in SampleTexts
         /\ ErrorRows = {}

\* C15 witness: the oracle asked for send_email, which executeFunction does
\* not know; the follow-up call answered "hello" and that reply was returned.
C15_Witness ==
  /\ Done
  /\ agent.kind = "llm" /\ agent.fn = "send_email"
  /\ agent.toolFailed /\ ~agent.failed
  /\ agent.fed = ErrorPlaceholder
  /\ response.kind = "resolved"
  /\ response.value.reply = <<"hello">>
  /\ response.value.action = "ask_clarification"

\* ================================================ typed failures ======
\* the response the router sends for call p once it has settled
ResponseOf(p) ==
  IF call[p].name = "bookTourSlot" THEN BookTourResponse(RequestId, result[p])
  ELSE CancelResponse(RequestId, result[p])

\* C17: slot-unavailable is a value, never a fault.  A call that no storage
\* fault has hit never throws: a booking that loses a race or targets a full
\* or missing slot returns the not-available result, a cancellation of an
\* already-cancelled booking or of an unknown id returns false, and the
\* router answers these with status 400, not with 500.
C17_UnavailableIsAValue ==
  \A p \in Procs :
    (pc[p] = "done" /\ hist[p].faultAt = "none") =>
      /\ result[p] # "thrown"
      /\ call[p].name = "bookTourSlot" => result[p] \in {"success", "not_available"}
      /\ call[p].name = "cancelBooking" => result[p] \in {"true", "false"}
      /\ (call[p].name = "cancelBooking" /\ call[p].booking_id \notin DOMAIN bookings)
           => result[p] = "false"
      /\ hist[p].onCancelled => result[p] = "false"
      /\ result[p] \in {"not_available", "false"} => ResponseOf(p).status = 400
      /\ ResponseOf(p).status # 500

\* C17 witness: two overlapping bookings of the last place of a slot; one
\* succeeded, the other lost the race and got the not-available result,
\* answered with status 400.
C17_Witness ==
  \E p, q \in Procs :
    /\ p # q
    /\ call[p].name = "bookTourSlot" /\ call[q].name = "bookTourSlot"
    /\ call[p].key = call[q].key
    /\ hist[p].overlapped
    /\ result[q] = "success" /\ result[p] = "not_available"
    /\ hist[p].faultAt = "none"
    /\ ResponseOf(p).status = 400

\* ============================================== locking discipline ====
\* the row locks call p holds
LocksHeld(p) ==
  { <<"tour_slots", s>> : s \in { t \in SlotIds : slotLock[t] = p } }
    \cup { <<"bookings", b>> : b \in { c \in BookingIds : bookingLock[c] = p } }

InvalidInquiry ==
  /\ http.stage # "off" /\ http.endpoint = "reply"
  /\ LET body == http.req
         Missing(v) == v.k = "undefined" \/ (v.k = "text" /\ Len(v.v) = 0)
         Blank(v) == v.k = "text" /\ \A i \in DOMAIN v.v : v.v[i] = " "
     IN  \/ body.lead.k = "undefined"
         \/ Missing(body.lead.name) \/ Missing(body.lead.email)
         \/ Missing(body.message) \/ Blank(body.message)
         \/ Missing(body.community_id)

\* C19: a request with a missing lead name or email, an empty or blank
\* message or a missing community id is rejected before it reaches the core:
\* processMessage is never invoked for it, nothing of the orchestrator runs,
\* no LogEntry is written, and the answer is an error status.
C19_RejectedBeforeCore ==
  InvalidInquiry =>
    /\ http.stage \in {"received", "responded"}
    /\ agent = [pc |-> "off"]
    /\ response.kind = "none"
    /\ logs = << >> /\ winston = << >>
    /\ http.stage = "responded" =>
         http.res.status = (IF http.req.message.k = "num" /\ http.req.lead.k # "undefined"
                               /\ ~Not(http.req.lead.name) /\ ~Not(http.req.lead.email)
                            THEN 500 ELSE 400)

\* C19 witness: a request with a full lead and community id whose message is
\* two blanks has been answered with 400 and the orchestrator never started.
C19_Witness ==
  /\ http.stage = "responded" /\ http.endpoint = "reply"
  /\ http.req.lead = [k |-> "obj", name |-> Text(<<"a">>), email |-> Text(<<"a">>)]
  /\ http.req.message.k = "text" /\ Len(http.req.message.v) = 2
  /\ \A i \in DOMAIN http.req.message.v : http.req.message.v[i] = " "
  /\ http.req.community_id = Text(<<"a">>)
  /\ http.res.status = 400
  /\ agent = [pc |-> "off"] /\ logs = << >>

\* ================================================== correlation ids ====
\* C20: every request handled at the boundary gets a correlation id that is
\* echoed back to the caller in the response (in the body or in the
\* X-Request-ID header), whatever the outcome, and every LogEntry written
\* while the inquiry is handled carries that id.
C20_CorrelationIdEchoed ==
  /\ http.stage = "responded" =>
       \/ http.res.body_request_id = http.request_id
       \/ http.res.header_request_id = http.request_id
  /\ http.stage \in {"core", "responded"} =>
       /\ \A i \in DOMAIN logs : logs[i].request_id = http.request_id
       /\ \A i \in DOMAIN winston : winston[i].request_id = http.request_id

\* ============================================ independent requests ====
\* C21 as stated: no mutable in-process state is shared between concurrent
\* processMessage invocations: no step of an invocation changes a field of
\* the agent object, which every other invocation reads.
C21_NoSharedMutableState == [][agentExecutor' = agentExecutor]_vars

\* C21 amended: the one field of the agent object that invocations assign is
\* agentExecutor, and only from null to an executor of the one fixed
\* configuration; so requests are still independent.  The response of a
\* finished processMessage invocation is a function of what happened to that
\* invocation alone: the oracle's answer to it and the faults that hit it (a
\* failing initializeAgent, oracle call or log write), however the other
\* in-flight invocations interleave with it, concurrent first requests that
\* both find the executor uninitialised included; and it never invokes a
\* missing executor.
C21_RequestsIndependent ==
  /\ agentExecutor \in {Null, Executor}
  /\ \A r \in Requests :
    /\ msgs[r].pc = "invoke" => agentExecutor = Executor
    /\ msgs[r].pc = "done" =>
         msgs[r].response =
           CASE msgs[r].fault = "none" ->
                  [kind |-> "resolved",
                   value |-> ParseAgentResponse(msgs[r].answer.output, StepsOf(msgs[r].answer.invs))]
             [] msgs[r].fault = "log_error" -> [kind |-> "rejected"]
             [] OTHER ->
                  IF \E i \in DOMAIN logs : logs[i] = MsgEntry(r, TRUE)
                    THEN [kind |-> "resolved", value |-> Fallback]
                    ELSE [kind |-> "rejected"]
    /\ (msgs[r].pc = "done" /\ msgs[r].fault = "none") => msgs[r].asked

\* C21 witness: two first requests both found the executor uninitialised and
\* both ran initializeAgent; no fault hit either; one was answered with a
\* tour-slot list and returned propose_tour, the other returned
\* handoff_human.
C21_Witness ==
  \E r, q \in Requests :
    /\ r # q
    /\ msgs[r].pc = "done" /\ msgs[q].pc = "done"
    /\ msgs[r].ranInit /\ msgs[q].ranInit
    /\ msgs[r].fault = "none" /\ msgs[q].fault = "none"
    /\ msgs[r].response.kind = "resolved" /\ msgs[r].response.value.action = "propose_tour"
    /\ msgs[q].response.kind = "resolved" /\ msgs[q].response.value.action = "handoff_human"

\* ================================================ unit availability ===
\* C23: for every community and every bedroom filter value, 0 included,
\* checkAvailability returns exactly the units of that community with
\* available = true and, when a filter is given, with exactly that bedroom
\* count, in ascending order of unit number; an empty list when nothing
\* matches.
C23_ExactlyTheMatchingUnits ==
  (query.pc = "returned" /\ query.op = "checkAvailability") =>
    LET wanted == { u \in UnitIds :
                      /\ units[u].community_id = query.community_id
                      /\ units[u].available
                      /\ query.bedrooms.k = "num" => units[u].bedrooms = query.bedrooms.v }
    IN  /\ { query.result[i] : i \in DOMAIN query.result } = wanted
        /\ Len(query.result) = Cardinality(wanted)
        /\ \A i, j \in DOMAIN query.result :
             i < j => units[query.result[i]].unit_number <= units[query.result[j]].unit_number

\* ================================================ tour-slot listing ===
\* the slots of the queried community that may be offered now
ListedSlots ==
  { s \in DOMAIN tour_slots :
      /\ tour_slots[s].community_id = query.community_id
      /\ tour_slots[s].available
      /\ tour_slots[s].current_bookings < tour_slots[s].max_capacity
      /\ tour_slots[s].slot_time > now }
\* how many of them have a time before t, and how many the time t
ListedBefore(t) == Cardinality({ s \in ListedSlots : tour_slots[s].slot_time < t })
ListedAt(t) == Cardinality({ s \in ListedSlots : tour_slots[s].slot_time = t })

\* C24: getAvailableTourSlots(community_id, limit) returns exactly the
\* earliest limit (5 when no limit is given) timestamps, ascending, of the
\* community's slots with available = true, current_bookings < max_capacity
\* and slot_time strictly in the future; so a slot booked to capacity is not
\* listed, and a slot with a free unit (as after a cancellation) is, when it
\* is among the earliest.
C24_EarliestOfferableSlots ==
  (query.pc = "returned" /\ query.op = "getAvailableTourSlots") =>
    LET n == IF query.limit.k = "undefined" THEN 5 ELSE query.limit.v
        res == query.result
        times == { tour_slots[s].slot_time : s \in DOMAIN tour_slots }
    IN  /\ Len(res) = Min(n, Cardinality(ListedSlots))
        /\ \A i, j \in DOMAIN res : i < j => res[i].iso <= res[j].iso
        /\ \A i \in DOMAIN res : res[i] = ToISOString(res[i].iso) /\ res[i].iso \in times
        /\ \A t \in times :
             Cardinality({ i \in DOMAIN res : res[i].iso = t })
               = Min(ListedAt(t), IF n > ListedBefore(t) THEN n - ListedBefore(t) ELSE 0)
        /\ \A s \in DOMAIN tour_slots :
             (tour_slots[s].current_bookings >= tour_slots[s].max_capacity
                /\ ListedAt(tour_slots[s].slot_time) = 0) =>
               \A i \in DOMAIN res : res[i].iso # tour_slots[s].slot_time

\* C24 witness: called with limit 2 when more than two slots are offerable,
\* the query returned two timestamps; a full slot lies between the two and
\* is skipped, and a free slot whose time has passed is left out.
C24_Witness ==
  /\ query.pc = "returned" /\ query.op = "getAvailableTourSlots"
  /\ now = 2
  /\ query.limit = Given(2) /\ Cardinality(ListedSlots) > 2
  /\ Len(query.result) = 2
  /\ \E s \in DOMAIN tour_slots :
       /\ tour_slots[s].community_id = query.community_id
       /\ tour_slots[s].current_bookings = tour_slots[s].max_capacity
       /\ query.result[1].iso < tour_slots[s].slot_time
       /\ tour_slots[s].slot_time < query.result[2].iso
  /\ \E s \in DOMAIN tour_slots :
       /\ tour_slots[s].community_id = query.community_id /\ tour_slots[s].available
       /\ tour_slots[s].current_bookings = 0 /\ tour_slots[s].slot_time <= now

\* ============================================ capacity ownership ======
\* call p commits a successful booking or cancellation in this step
CommitsChange(p) ==
  /\ pc[p] \in {"b_commit", "c_commit"} /\ pc'[p] = "done"
  /\ result'[p] \in {"success", "true"}

\* C22: only a committed bookTourSlot or cancelBooking changes a slot's
\* current_bookings.  A step that changes the committed counter of a slot is
\* the COMMIT of a successful booking (one more) or of a successful
\* cancellation (one less) on that slot; the read-only methods, and bookings
\* and cancellations that fail or roll back, leave every counter as it was.
C22_OnlyCommittedBookingsChangeCapacity ==
  [][ /\ \A s \in SlotIds :
           tour_slots'[s].current_bookings # tour_slots[s].current_bookings =>
             \E p \in Procs :
               /\ CommitsChange(p)
               /\ tx[p].slot = s
               /\ tour_slots'[s].current_bookings =
                    tour_slots[s].current_bookings
                      + (IF call[p].name = "bookTourSlot" THEN 1 ELSE -1)
      /\ query' # query => tour_slots' = tour_slots
      /\ \A p \in Procs :
           (pc[p] # "done" /\ pc'[p] = "done"
              /\ result'[p] \in {"not_available", "false", "thrown"}) =>
             tour_slots' = tour_slots
    ]_vars

\* C22 witness: a booking that had already run its UPDATE of the counter
\* failed at the INSERT and was rolled back, the slot listing has returned,
\* and both slots still have their seeded counters.
C22_Witness ==
  /\ \E p \in Procs :
       /\ call[p].name = "bookTourSlot"
       /\ result[p] = "thrown" /\ hist[p].faultAt = "b_insert"
  /\ query.pc = "returned" /\ query.op = "getAvailableTourSlots"
  /\ Len(query.result) > 0
  /\ tour_slots = ReadSeedSlots

\* ============================================ bookTourSlot's value =====
\* JavaScript booleans
Bool(b) == [k |-> "bool", v |-> b]

\* (mutation of BookTourSlotValue: the method returns the bare success flag)
BookTourSlotValue_Flag(p) == Bool(result[p] = "success")

\* the value the promise of a bookTourSlot call that returned resolved with:
\* the two return statements of the method
BookTourSlotValue(p) ==
  IF result[p] = "success"
    THEN [k |-> "obj", success |-> TRUE, booking_id |-> p]
    ELSE [k |-> "obj", success |-> FALSE, error |-> "Tour slot not available"]

BookReturned(p) == IsBook(p) /\ pc[p] = "done" /\ result[p] \in {"success", "not_available"}

LiveBookings(s) ==
  { b \in DOMAIN bookings : bookings[b].tour_slot_id = s /\ bookings[b].status # "cancelled" }

\* C26: starting from tables in which every slot's current_bookings equals
\* the number of its bookings that are not cancelled, the equality holds in
\* every committed state, however bookTourSlot and cancelBooking calls
\* interleave; so a slot never has more live bookings than max_capacity.
C26_CounterCountsLiveBookings ==
  \A s \in SlotIds :
    /\ tour_slots[s].current_bookings = Cardinality(LiveBookings(s))
    /\ Cardinality(LiveBookings(s)) <= tour_slots[s].max_capacity

\* C26 witness: a booking of the first slot and the cancellation of its
\* seeded booking have both committed, the cancellation with its decrement;
\* the slot has one live booking, the new one, and counter 1.
C26_Witness ==
  \E p, q \in Procs :
    /\ IsBook(p) /\ result[p] = "success" /\ call[p].key = KeyOf(1)
    /\ IsCancel(q) /\ result[q] = "true" /\ call[q].booking_id = 0
    /\ hist[q].decremented
    /\ LiveBookings(1) = {p}
    /\ tour_slots[1].current_bookings = 1

\* ================================================== fair scheduling ====
\* the next statement of the transaction of call p: each awaited query
\* resumes once the database answers it, and the database answers a
\* statement as soon as the row locks it needs are free
TransactionStep(p) ==
  \/ BookSelect(p) \/ BookNotAvailable(p) \/ BookUpdate(p) \/ BookInsert(p)
  \/ BookCommit(p)
  \/ CancelSelect(p) \/ CancelFalse(p) \/ CancelUpdateBooking(p)
  \/ CancelUpdateSlot(p) \/ CancelCommit(p)
  \/ CatchRollback(p)

\* no started call is left waiting forever while its next statement can run
FairScheduling == \A p \in Procs : WF_vars(TransactionStep(p))

\* bookings of the first seeded slot and cancellations, with storage faults
NextFair ==
  \/ \E p \in Procs : BookCall(p, FirstSlotKey)
  \/ \E p \in Procs : BookSelect(p)
  \/ \E p \in Procs : BookNotAvailable(p)
  \/ \E p \in Procs : BookUpdate(p)
  \/ \E p \in Procs : BookInsert(p)
  \/ \E p \in Procs : BookCommit(p)
  \/ \E p \in Procs, b \in BookingIds : CancelCall(p, b)
  \/ \E p \in Procs : CancelSelect(p)
  \/ \E p \in Procs : CancelFalse(p)
  \/ \E p \in Procs : CancelUpdateBooking(p)
  \/ \E p \in Procs : CancelUpdateSlot(p)
  \/ \E p \in Procs : CancelCommit(p)
  \/ \E p \in Procs : BeginFault(p, [name |-> "bookTourSlot", key |-> FirstSlotKey])
  \/ \E p \in Procs : QueryFault(p)
  \/ \E p \in Procs : CatchRollback(p)

\* the booking transactions on the seeded tables under fair scheduling
SpecFair == InitReads /\ [][NextFair]_vars /\ FairScheduling

Started(p) == pc[p] \notin {"idle", "done"}

\* C27: concurrent bookTourSlot and cancelBooking transactions never
\* deadlock (while a call is in flight, some call's next statement can run),
\* and under fair scheduling every started call eventually commits or rolls
\* back and returns.
C27_EveryTransactionReturns ==
  /\ []((\E p \in Procs : Started(p)) => \E p \in Procs : ENABLED TransactionStep(p))
  /\ \A p \in Procs : Started(p) ~> (pc[p] = "done")

\* C27 witness: a cancellation that holds the lock of its booking row waits
\* for the slot row, which a booking in flight has locked.
C27_Witness ==
  \E p, q \in Procs :
    /\ IsBook(p) /\ Started(p)
    /\ IsCancel(q) /\ pc[q] = "c_updslot"
    /\ bookingLock[call[q].booking_id] = q
    /\ slotLock[tx[q].sel] = p

\* ================================== what the oracle is told (LLMAgent) ====
\* C28: in LLMAgent.processMessage the result given to the follow-up oracle
\* call is the one captured for classification: the oracle never receives
\* the error placeholder while toolResults holds the invocation's successful
\* result, so no request whose oracle was told the lookup failed is
\* classified propose_tour.
C28_OracleToldWhatIsCaptured ==
  (agent.pc # "off" /\ agent.kind = "llm" /\ agent.fed = ErrorPlaceholder)
    => /\ agent.toolResults = << >>
       /\ agent.out.action # "propose_tour"

\* ============================================ the two classifiers ====
\* action, proposed_time and available_times of a classification
SameClassification(a, b) ==
  /\ a.action = b.action
  /\ a.action = "propose_tour" =>
       /\ a.proposed_time = b.proposed_time
       /\ a.available_times = b.available_times

CancelReturnsTrue(p) == IsCancel(p) /\ pc[p] = "c_commit" /\ pc'[p] = "done" /\ result'[p] = "true"

\* the SELECT ... FOR UPDATE of call p is answered in this step
SelectAnswered(p) == IsBook(p) /\ pc[p] = "b_select" /\ pc'[p] \in {"b_update", "b_notfound"}

\* C30: cancellation frees capacity.  When cancelBooking returns true the
\* committed current_bookings of the booking's slot drops by exactly one and
\* no other counter moves; a bookTourSlot whose SELECT then finds the slot
\* available with a free unit is not turned away (it is rejected only when
\* the slot is full again or flagged unavailable), and "not available" is
\* returned from that SELECT's empty result only.
C30_CancellationFreesCapacity ==
  [][\A p \in Procs :
       /\ CancelReturnsTrue(p) =>
            LET s == bookings[call[p].booking_id].tour_slot_id IN
            /\ tour_slots'[s].current_bookings = tour_slots[s].current_bookings - 1
            /\ \A t \in SlotIds \ {s} : tour_slots'[t] = tour_slots[t]
       /\ SelectAnswered(p) =>
            LET free == { s \in SlotIds : /\ KeyOf(s) = call[p].key
                                          /\ tour_slots[s].available
                                          /\ tour_slots[s].current_bookings < tour_slots[s].max_capacity }
            IN (pc'[p] = "b_notfound") <=> (free = {})
       /\ (result'[p] = "not_available" /\ result[p] # "not_available") => pc[p] = "b_notfound"
    ]_vars

\* C30 witness: the first slot has capacity 1 and was full with the seeded
\* booking; that booking is cancelled (true, one decrement) and a booking
\* call that was not concurrent with another has taken the freed unit.
C30_Witness ==
  \E p, q \in Procs :
    /\ tour_slots[1].available /\ tour_slots[1].max_capacity = 1
    /\ IsCancel(q) /\ call[q].booking_id = 0 /\ result[q] = "true" /\ hist[q].decremented
    /\ bookings[0].status = "cancelled"
    /\ IsBook(p) /\ result[p] = "success" /\ ~hist[p].overlapped
    /\ p \in DOMAIN bookings /\ bookings[p].tour_slot_id = 1 /\ bookings[p].status = "confirmed"
    /\ tour_slots[1].current_bookings = 1

====
